---------------------------- MODULE Spec2Model ----------------------------
(***************************************************************************)
(* A model of the locator resolution and polling engine of selenium2:      *)
(*   browser_support/_base.py         Base.find_element, Base._get_strategy*)
(*   browser_support/waiting.py       Waiting.wait_for_*, _wait_until[_not]*)
(*   browser_support/windowmanager.py WindowManager.select_window, _select *)
(*                                                                         *)
(* Python strings that the code inspects character by character (locators, *)
(* window attributes) are sequences of one-character strings.  Python      *)
(* values of mixed type (None / WebElement / list) are tagged records.     *)
(***************************************************************************)
EXTENDS Integers, Sequences, FiniteSets, TLC

VARIABLES
    p_locator,   \* parser: the argument of _get_strategy
    p_out,       \* parser: its outcome once called
    p_pc,        \* parser: "call" before the call, "done" after
    f_call,      \* finder: the entry point called and its arguments
    f_out,       \* finder: the outcome of the call
    f_pc,        \* finder: "call" before the call, "done" after
    w_call,      \* waiter: the wait_for_* wrapper called and its arguments
    w_pc,        \* waiter: "call", "poll" inside the loop, "done"
    w_now,       \* waiter: time.time(), in poll intervals
    w_start,     \* waiter: the time at which the loop was entered
    w_end,       \* waiter: end_time of the loop
    w_evals,     \* waiter: evaluations of the predicate so far
    w_sleeps,    \* waiter: time.sleep(poll) calls so far
    w_seen,      \* waiter: the kinds of outcome the predicate has had
    w_last,      \* waiter: the outcome of the last evaluation
    w_out,       \* waiter: the outcome of the wrapper
    d_handles,   \* browser: driver.window_handles, the open windows in order
    d_current,   \* browser: the window the driver is switched to (open or not)
    d_next,      \* browser: how many windows have been opened so far
    s_call,      \* selector: the arguments of select_window
    s_pc,        \* selector: where the call is
    s_locator,   \* selector: the local variable locator of _select
    s_sel,       \* selector: the selector the current attempt runs
    s_starting,  \* selector: current_handle / starting_handle of the attempt
    s_todo,      \* selector: the handles the attempt still has to visit
    s_epoch,     \* selector: the local variable epoch of select_window
    s_deadline,  \* selector: the local variable timeout of _select
    s_now,       \* selector: time.time(), in sleeps of 0.2 s
    s_attempts,  \* selector: passes of the try block so far
    s_entry,     \* selector: the current handle when select_window was called
    s_out        \* selector: the outcome of select_window

parserVars == <<p_locator, p_out, p_pc>>

finderVars == <<f_call, f_out, f_pc>>

waiterVars ==
    <<w_call, w_pc, w_now, w_start, w_end, w_evals, w_sleeps, w_seen, w_last, w_out>>

browserVars == <<d_handles, d_current, d_next>>

selectorVars ==
    <<s_call, s_pc, s_locator, s_sel, s_starting, s_todo, s_epoch, s_deadline, s_now, s_attempts, s_entry, s_out>>

windowVars == <<browserVars, selectorVars>>

vars == <<parserVars, finderVars, waiterVars, windowVars>>

----------------------------------------------------------------------------
(* Characters.                                                             *)

UpperLetters == <<"A","B","C","D","E","F","G","H","I","J","K","L","M",
                  "N","O","P","Q","R","S","T","U","V","W","X","Y","Z">>

LowerLetters == <<"a","b","c","d","e","f","g","h","i","j","k","l","m",
                  "n","o","p","q","r","s","t","u","v","w","x","y","z">>

Digits == {"0","1","2","3","4","5","6","7","8","9"}

\* the class \w of the re module on the characters used here
WordChars ==
    {UpperLetters[i] : i \in 1..26} \cup {LowerLetters[i] : i \in 1..26}
        \cup Digits \cup {"_"}

\* str.lower() on one character
LowerChar(c) ==
    IF \E i \in 1..26 : UpperLetters[i] = c
    THEN LowerLetters[CHOOSE i \in 1..26 : UpperLetters[i] = c]
    ELSE c

\* str.lower()
Lower(s) == [i \in 1..Len(s) |-> LowerChar(s[i])]

\* s[i:] of Python with the 1-based index i of its first character
From(s, i) == IF i > Len(s) THEN <<>> ELSE SubSeq(s, i, Len(s))

\* str.startswith(tuple of one-character prefixes)
StartsWith(s, prefixes) == Len(s) >= 1 /\ s[1] \in prefixes

----------------------------------------------------------------------------
(* The regular expression of _get_strategy,                                *)
(*     ^((\w+ )?(\w+)) ?[:=] ?(.+)                                         *)
(* matched as re.search matches it: greedy, leftmost alternative first,    *)
(* backtracking on failure.  "^" without re.MULTILINE anchors at index 1.  *)

\* length of the longest run of \w characters of s that starts at index i
RECURSIVE WordRun(_, _)
WordRun(s, i) ==
    IF i <= Len(s) /\ s[i] \in WordChars THEN 1 + WordRun(s, i + 1) ELSE 0

\* length of the longest run of "." characters (anything but a newline)
RECURSIVE DotRun(_, _)
DotRun(s, i) ==
    IF i <= Len(s) /\ s[i] # "\n" THEN 1 + DotRun(s, i + 1) ELSE 0

NoMatch == [matched |-> FALSE, g1 |-> <<>>, g4 |-> <<>>]

\* " ?(.+)" from index k: the greedy " ?" takes a blank when there is one
\* and gives it back when nothing is left for ".+"
MatchQuery(s, k) ==
    IF k <= Len(s) /\ s[k] = " " /\ DotRun(s, k + 1) >= 1
    THEN [matched |-> TRUE, q |-> SubSeq(s, k + 1, k + DotRun(s, k + 1))]
    ELSE IF DotRun(s, k) >= 1
         THEN [matched |-> TRUE, q |-> SubSeq(s, k, k + DotRun(s, k) - 1)]
         ELSE [matched |-> FALSE, q |-> <<>>]

\* " ?[:=] ?(.+)" from index j
MatchTail(s, j) ==
    LET j1 == IF j <= Len(s) /\ s[j] = " " THEN j + 1 ELSE j
    IN  IF j1 <= Len(s) /\ s[j1] \in {":", "="}
        THEN MatchQuery(s, j1 + 1)
        ELSE [matched |-> FALSE, q |-> <<>>]

\* re.search('^((\w+ )?(\w+)) ?[:=] ?(.+)', s): groups 1 and 4
StrategyRegex(s) ==
    LET a  == WordRun(s, 1)
        b  == IF a >= 1 /\ a + 1 <= Len(s) /\ s[a + 1] = " "
              THEN WordRun(s, a + 2) ELSE 0
        t2 == MatchTail(s, a + 2 + b)      \* with the optional first word
        t1 == MatchTail(s, a + 1)          \* without it
    IN  IF b >= 1 /\ t2.matched
        THEN [matched |-> TRUE, g1 |-> SubSeq(s, 1, a + 1 + b), g4 |-> t2.q]
        ELSE IF a >= 1 /\ t1.matched
             THEN [matched |-> TRUE, g1 |-> SubSeq(s, 1, a), g4 |-> t1.q]
             ELSE NoMatch

----------------------------------------------------------------------------
(* Base._get_strategy                                                      *)

\* the example of the error message, "id:theID"
ExampleUsage == <<"i","d",":","t","h","e","I","D">>

NoMsg == [locator |-> <<>>, example |-> <<>>]

\* ValueError('Was not able to parse locator "{}". Example usage "id:theID"')
ParseErrorMsg(locator) == [locator |-> locator, example |-> ExampleUsage]

Parsed(strategy, query, regex) ==
    [exc |-> "none", strategy |-> strategy, query |-> query,
     usedRegex |-> regex, msg |-> NoMsg]

\* _get_strategy with the slice [1:] of the "#" branch left out
GetStrategy_KeepsHash(locator) ==
    IF StartsWith(locator, {"/", "(", "."})
    THEN Parsed(<<"x","p","a","t","h">>, locator, FALSE)
    ELSE IF StartsWith(locator, {"#"})
    THEN Parsed(<<"i","d">>, locator, FALSE)
    ELSE IF StartsWith(locator, {"@"})
    THEN Parsed(<<"l","i","n","k">>, From(locator, 2), FALSE)
    ELSE LET groups == StrategyRegex(locator)
         IN  IF ~groups.matched
             THEN [exc |-> "ValueError", strategy |-> <<>>, query |-> <<>>,
                   usedRegex |-> TRUE, msg |-> ParseErrorMsg(locator)]
             ELSE Parsed(Lower(groups.g1), groups.g4, TRUE)

\* _get_strategy falling back to the default strategy when the pattern does
\* not match, as WindowManager._get_selector does
GetStrategy_FallsBackToDefault(locator) ==
    IF StartsWith(locator, {"/", "(", "."})
    THEN Parsed(<<"x","p","a","t","h">>, locator, FALSE)
    ELSE IF StartsWith(locator, {"#"})
    THEN Parsed(<<"i","d">>, From(locator, 2), FALSE)
    ELSE IF StartsWith(locator, {"@"})
    THEN Parsed(<<"l","i","n","k">>, From(locator, 2), FALSE)
    ELSE LET groups == StrategyRegex(locator)
         IN  IF ~groups.matched
             THEN Parsed(<<"d","e","f","a","u","l","t">>, locator, TRUE)
             ELSE Parsed(Lower(groups.g1), groups.g4, TRUE)

\* _get_strategy without the "@" branch
GetStrategy_NoLinkShorthand(locator) ==
    IF StartsWith(locator, {"/", "(", "."})
    THEN Parsed(<<"x","p","a","t","h">>, locator, FALSE)
    ELSE IF StartsWith(locator, {"#"})
    THEN Parsed(<<"i","d">>, From(locator, 2), FALSE)
    ELSE LET groups == StrategyRegex(locator)
         IN  IF ~groups.matched
             THEN [exc |-> "ValueError", strategy |-> <<>>, query |-> <<>>,
                   usedRegex |-> TRUE, msg |-> ParseErrorMsg(locator)]
             ELSE Parsed(Lower(groups.g1), groups.g4, TRUE)

\* Base._get_strategy(locator)
GetStrategy(locator) ==
    IF StartsWith(locator, {"/", "(", "."})
    THEN Parsed(<<"x","p","a","t","h">>, locator, FALSE)
    ELSE IF StartsWith(locator, {"#"})
    THEN Parsed(<<"i","d">>, From(locator, 2), FALSE)
    ELSE IF StartsWith(locator, {"@"})
    THEN Parsed(<<"l","i","n","k">>, From(locator, 2), FALSE)
    ELSE LET groups == StrategyRegex(locator)
         IN  IF ~groups.matched
             THEN [exc |-> "ValueError", strategy |-> <<>>, query |-> <<>>,
                   usedRegex |-> TRUE, msg |-> ParseErrorMsg(locator)]
             ELSE Parsed(Lower(groups.g1), groups.g4, TRUE)

----------------------------------------------------------------------------
(* Python values: None, bool, str, WebElement, list of WebElement.         *)

\* get_attribute() of an attribute the element does not have
NoneStr == <<"<None>">>

NoElem == [eid |-> 0, tag_name |-> <<>>, type |-> NoneStr, name |-> NoneStr]

PyNone == [t |-> "None", b |-> FALSE, s |-> <<>>, e |-> NoElem, items |-> <<>>]

PyBool(b) == [t |-> "bool", b |-> b, s |-> <<>>, e |-> NoElem, items |-> <<>>]

PyStr(s) == [t |-> "str", b |-> FALSE, s |-> s, e |-> NoElem, items |-> <<>>]

PyElem(e) == [t |-> "elem", b |-> FALSE, s |-> <<>>, e |-> e, items |-> <<>>]

PyList(items) ==
    [t |-> "list", b |-> FALSE, s |-> <<>>, e |-> NoElem, items |-> items]

\* bool(v)
Truthy(v) ==
    CASE v.t = "None" -> FALSE
      [] v.t = "bool" -> v.b
      [] v.t = "str"  -> Len(v.s) > 0
      [] v.t = "elem" -> TRUE
      [] v.t = "list" -> Len(v.items) > 0

\* isinstance(v, WebElement)
IsWebElement(v) == v.t = "elem"

UpperChar(c) ==
    IF \E i \in 1..26 : LowerLetters[i] = c
    THEN UpperLetters[CHOOSE i \in 1..26 : LowerLetters[i] = c]
    ELSE c

\* str.capitalize()
Capitalize(s) ==
    [i \in 1..Len(s) |-> IF i = 1 THEN UpperChar(s[i]) ELSE LowerChar(s[i])]

----------------------------------------------------------------------------
(* Base.__init__: the alias table, alias |-> canonical strategy name.      *)

StrategyAlias ==
    {
      <<<<"i","d","e","n","t","i","f","i","e","r">>, <<"i","d","e","n","t","i","f","i","e","r">>>>,
      <<<<"i","d">>, <<"i","d">>>>,
      <<<<"b","y"," ","i","d">>, <<"i","d">>>>,
      <<<<"b","y","_","i","d">>, <<"i","d">>>>,
      <<<<"#">>, <<"i","d">>>>,
      <<<<"n","a","m","e">>, <<"n","a","m","e">>>>,
      <<<<"b","y"," ","n","a","m","e">>, <<"n","a","m","e">>>>,
      <<<<"b","y","_","n","a","m","e">>, <<"n","a","m","e">>>>,
      <<<<"x","p","a","t","h">>, <<"x","p","a","t","h">>>>,
      <<<<"x">>, <<"x","p","a","t","h">>>>,
      <<<<"x"," ","p","a","t","h">>, <<"x","p","a","t","h">>>>,
      <<<<"p","a","t","h">>, <<"x","p","a","t","h">>>>,
      <<<<"d","o","m">>, <<"d","o","m">>>>,
      <<<<"l","i","n","k">>, <<"l","i","n","k">>>>,
      <<<<"@">>, <<"l","i","n","k">>>>,
      <<<<"l","i","n","k"," ","t","e","x","t">>, <<"l","i","n","k">>>>,
      <<<<"p","a","r","t","i","a","l">>, <<"p","a","r","t","i","a","l"," ","l","i","n","k">>>>,
      <<<<"p","a","r","t","i","a","l"," ","l","i","n","k">>, <<"p","a","r","t","i","a","l"," ","l","i","n","k">>>>,
      <<<<"p","l","i","n","k">>, <<"p","a","r","t","i","a","l"," ","l","i","n","k">>>>,
      <<<<"p","a","r","t","i","a","l","_","l","i","n","k">>, <<"p","a","r","t","i","a","l"," ","l","i","n","k">>>>,
      <<<<"c","s","s">>, <<"c","s","s">>>>,
      <<<<"c","s","s"," ","p","a","t","h">>, <<"c","s","s">>>>,
      <<<<"c","s","s","_","p","a","t","h">>, <<"c","s","s">>>>,
      <<<<"c","l","a","s","s"," ","n","a","m","e">>, <<"c","l","a","s","s">>>>,
      <<<<"c","l","a","s","s">>, <<"c","l","a","s","s">>>>,
      <<<<"c","l","a","s","s","_","n","a","m","e">>, <<"c","l","a","s","s">>>>,
      <<<<"j","q","u","e","r","y">>, <<"j","q","u","e","r","y">>>>,
      <<<<"j","q">>, <<"j","q","u","e","r","y">>>>,
      <<<<"j"," ","q","u","e","r","y">>, <<"j","q","u","e","r","y">>>>,
      <<<<"t","a","g">>, <<"t","a","g">>>>,
      <<<<"d","e","f","a","u","l","t">>, <<"d","e","f","a","u","l","t">>>>
    }

\* strategy in self._strategy_alias
AliasKnown(strategy) == \E p \in StrategyAlias : p[1] = strategy

\* the alias table, were it to hand every name back as it is
ResolveAlias_Identity(strategy) == strategy

\* self._strategy_alias[strategy]
ResolveAlias(strategy) == (CHOOSE p \in StrategyAlias : p[1] = strategy)[2]

\* the keys of self._strategies: the names that have a search function
Strategies ==
    { <<"i","d","e","n","t","i","f","i","e","r">>,
      <<"i","d">>,
      <<"n","a","m","e">>,
      <<"x","p","a","t","h">>,
      <<"d","o","m">>,
      <<"l","i","n","k">>,
      <<"p","a","r","t","i","a","l"," ","l","i","n","k">>,
      <<"c","s","s">>,
      <<"c","l","a","s","s">>,
      <<"j","q","u","e","r","y">>,
      <<"t","a","g">>,
      <<"d","e","f","a","u","l","t">> }

\* find_element: strategy, query = self._get_strategy(locator);
\* strategy_method = self._strategies[self._strategy_alias[strategy]]
Dispatch(locator) ==
    LET p == GetStrategy(locator)
    IN  IF p.exc = "ValueError"
        THEN [exc |-> "ValueError", strategy |-> <<>>, query |-> <<>>,
              method |-> <<>>]
        ELSE IF ~AliasKnown(p.strategy) \/ ResolveAlias(p.strategy) \notin Strategies
        THEN [exc |-> "KeyError", strategy |-> p.strategy, query |-> p.query,
              method |-> <<>>]
        ELSE [exc |-> "none", strategy |-> p.strategy, query |-> p.query,
              method |-> ResolveAlias(p.strategy)]

----------------------------------------------------------------------------
(* Base._get_tag_and_constraints                                           *)

NoConstraints == <<>>

\* one entry of the constraints dict: a single value or a list of values
Constraint(name, value) ==
    [name |-> name, isList |-> FALSE, value |-> value, values |-> <<>>]

ConstraintList(name, values) ==
    [name |-> name, isList |-> TRUE, value |-> <<>>, values |-> values]

TextFieldTypes ==
    << <<"d","a","t","e">>,
       <<"d","a","t","e","t","i","m","e","-","l","o","c","a","l">>,
       <<"e","m","a","i","l">>,
       <<"m","o","n","t","h">>,
       <<"n","u","m","b","e","r">>,
       <<"p","a","s","s","w","o","r","d">>,
       <<"s","e","a","r","c","h">>,
       <<"t","e","l">>,
       <<"t","e","x","t">>,
       <<"t","i","m","e">>,
       <<"u","r","l">>,
       <<"w","e","e","k">>,
       <<"f","i","l","e">> >>

\* _get_tag_and_constraints without its table of kinds
GetTagAndConstraints_NoTable(tag) ==
    IF tag.t = "None"
    THEN [tag |-> PyNone, constraints |-> NoConstraints]
    ELSE [tag |-> PyStr(Lower(tag.s)), constraints |-> NoConstraints]

\* Base._get_tag_and_constraints
GetTagAndConstraints(tag) ==
    IF tag.t = "None"
    THEN [tag |-> PyNone, constraints |-> NoConstraints]
    ELSE LET low == Lower(tag.s)
             t1  == IF low = <<"l","i","n","k">> THEN <<"a">> ELSE low
         IN  CASE t1 = <<"p","a","r","t","i","a","l"," ","l","i","n","k">> ->
                    [tag |-> PyStr(<<"a">>), constraints |-> NoConstraints]
               [] t1 = <<"i","m","a","g","e">> ->
                    [tag |-> PyStr(<<"i","m","g">>), constraints |-> NoConstraints]
               [] t1 = <<"l","i","s","t">> ->
                    [tag |-> PyStr(<<"s","e","l","e","c","t">>), constraints |-> NoConstraints]
               [] t1 = <<"r","a","d","i","o"," ","b","u","t","t","o","n">> ->
                    [tag |-> PyStr(<<"i","n","p","u","t">>),
                     constraints |-> <<Constraint("type", <<"r","a","d","i","o">>)>>]
               [] t1 = <<"c","h","e","c","k","b","o","x">> ->
                    [tag |-> PyStr(<<"i","n","p","u","t">>),
                     constraints |-> <<Constraint("type", <<"c","h","e","c","k","b","o","x">>)>>]
               [] t1 = <<"t","e","x","t"," ","f","i","e","l","d">> ->
                    [tag |-> PyStr(<<"i","n","p","u","t">>),
                     constraints |-> <<ConstraintList("type", TextFieldTypes)>>]
               [] t1 = <<"f","i","l","e"," ","u","p","l","o","a","d">> ->
                    [tag |-> PyStr(<<"i","n","p","u","t">>),
                     constraints |-> <<Constraint("type", <<"f","i","l","e">>)>>]
               [] t1 = <<"t","e","x","t"," ","a","r","e","a">> ->
                    [tag |-> PyStr(<<"t","e","x","t","a","r","e","a">>), constraints |-> NoConstraints]
               [] OTHER ->
                    [tag |-> PyStr(t1), constraints |-> NoConstraints]

----------------------------------------------------------------------------
(* Base._filter                                                            *)

\* element.get_attribute(name): the model's elements carry one attribute
GetAttribute(e, name) ==
    CASE name = "type" -> e.type
      [] name = "name" -> e.name
      [] OTHER -> NoneStr

InSeq(x, seq) == \E i \in 1..Len(seq) : seq[i] = x

\* the body of the loop "for name in constraints" for one name
ConstraintMatches(e, c) ==
    IF c.isList
    THEN InSeq(GetAttribute(e, c.name), c.values)
    ELSE GetAttribute(e, c.name) = c.value

\* _filter, were it to compare the tag name as it is
FilterKeeps_CaseSensitive(e, tag, constraints) ==
    /\ e.tag_name = tag
    /\ \/ constraints = NoConstraints
       \/ \E i \in 1..Len(constraints) : ConstraintMatches(e, constraints[i])

\* whether the loop of _filter appends the element
FilterKeeps(e, tag, constraints) ==
    /\ Lower(e.tag_name) = tag
    /\ \/ constraints = NoConstraints
       \/ \E i \in 1..Len(constraints) : ConstraintMatches(e, constraints[i])

\* _filter, were its loop to start at the second element
FilterList_SkipsFirst(elements, tag, constraints) ==
    IF elements = <<>>
    THEN <<>>
    ELSE SelectSeq(Tail(elements), LAMBDA e : FilterKeeps(e, tag, constraints))

\* _filter(elements, tag, constraints) on a list of elements, tag a str
FilterList(elements, tag, constraints) ==
    SelectSeq(elements, LAMBDA e : FilterKeeps(e, tag, constraints))

Ok(value, searches) == [exc |-> "none", value |-> value, searches |-> searches]

Fail(exc, searches) == [exc |-> exc, value |-> PyNone, searches |-> searches]

\* _filter(elements, tag, constraints) on any Python value: with tag None
\* the value comes back as it is, otherwise it is iterated
Filter(elements, tag, constraints, searches) ==
    IF tag.t = "None"
    THEN Ok(elements, searches)
    ELSE IF elements.t = "list"
         THEN Ok(PyList(FilterList(elements.items, tag.s, constraints)),
                 searches)
         ELSE Fail("TypeError", searches)

\* _get_xpath_constraint(name, value) as a predicate on an element:
\* "@name[. = 'a' or . = 'b']" for a list, "@name='v'" otherwise; an
\* attribute the element does not have selects nothing
XpathConstraint(e, c) ==
    /\ GetAttribute(e, c.name) # NoneStr
    /\ IF c.isList
       THEN \E i \in 1..Len(c.values) : GetAttribute(e, c.name) = c.values[i]
       ELSE GetAttribute(e, c.name) = c.value

\* the clause ' and '.join(xpath_constraints) of _find_by_default
XpathConstraints(e, constraints) ==
    \A i \in 1..Len(constraints) : XpathConstraint(e, constraints[i])

----------------------------------------------------------------------------
(* The strategy methods, Base._find_by_*.  The driver is an external       *)
(* collaborator: what it answers to the lookups of one call is the record  *)
(* drv, hits for the first native lookup, hits2 for the second one (the    *)
(* by-name half of identifier), script for execute_script.                 *)

\* self.driver as the parent of a lookup
PyDriver == [t |-> "driver", b |-> FALSE, s |-> <<>>, e |-> NoElem, items |-> <<>>]

\* _find_by_dom
FindByDom(query, tag, constraints, parent, drv) ==
    IF IsWebElement(parent)
    THEN Fail("ValueError", 0)
    ELSE LET result == drv.script
         IN  IF result.t = "None"
             THEN Ok(PyList(<<>>), 1)
             ELSE IF result.t # "list"
                  THEN Filter(PyList(<<result.e>>), tag, constraints, 1)
                  ELSE Filter(result, tag, constraints, 1)

\* _find_by_jquery_selector
FindByJquery(query, tag, constraints, parent, drv) ==
    IF IsWebElement(parent)
    THEN Fail("ValueError", 0)
    ELSE Filter(drv.script, tag, constraints, 1)

\* _find_by_identifier
FindByIdentifier(query, tag, constraints, parent, drv) ==
    Filter(PyList(drv.hits \o drv.hits2), tag, constraints, 2)

\* _find_by_id, _by_name, _by_xpath, _by_link_text, _by_partial_link_text,
\* _by_css_selector, _by_class_name, _by_tag_name: one native lookup each
FindByNative(query, tag, constraints, parent, drv) ==
    Filter(PyList(drv.hits), tag, constraints, 1)

\* _find_by_default: the tag and the constraints go into the XPath, the
\* result of the lookup is returned unfiltered
FindByDefault(criteria, tag, constraints, parent, drv) ==
    Ok(PyList(drv.hits), 1)

\* self._strategies[canonical](query, tag, constraints, parent=parent)
StrategyMethod(canonical, query, tag, constraints, parent, drv) ==
    CASE canonical = <<"i","d","e","n","t","i","f","i","e","r">> ->
            FindByIdentifier(query, tag, constraints, parent, drv)
      [] canonical = <<"d","o","m">> ->
            FindByDom(query, tag, constraints, parent, drv)
      [] canonical = <<"j","q","u","e","r","y">> ->
            FindByJquery(query, tag, constraints, parent, drv)
      [] canonical = <<"d","e","f","a","u","l","t">> ->
            FindByDefault(query, tag, constraints, parent, drv)
      [] OTHER ->
            FindByNative(query, tag, constraints, parent, drv)

----------------------------------------------------------------------------
(* Base.find_element and Base.find_elements                                *)

\* the text of an exception: which message, and the values formatted in
Msg(text, element_type, locator, strategy, query, example) ==
    [text |-> text, element_type |-> element_type, locator |-> locator,
     strategy |-> strategy, query |-> query, example |-> example]

EmptyMsg == Msg("none", <<>>, <<>>, <<>>, <<>>, <<>>)

\* the outcome of a call: what it returned or raised, with the number of
\* calls of _get_strategy (parses) and of driver lookups (searches) it
\* made, and the candidate list the strategy method gave back
Return(value, parses, searches, candidates) ==
    [kind |-> "return", exc |-> "none", value |-> value, msg |-> EmptyMsg,
     parses |-> parses, searches |-> searches, candidates |-> candidates]

Raise(exc, msg, parses, searches, candidates) ==
    [kind |-> "raise", exc |-> exc, value |-> PyNone, msg |-> msg,
     parses |-> parses, searches |-> searches, candidates |-> candidates]

\* no candidate list: the strategy method was not reached or raised
NoCandidates ==
    [t |-> "unset", b |-> FALSE, s |-> <<>>, e |-> NoElem, items |-> <<>>]

\* 'Element' if not tag else tag.capitalize()
ElementType(tag) ==
    IF ~Truthy(tag) THEN <<"E","l","e","m","e","n","t">> ELSE Capitalize(tag.s)

\* the end of find_element with the test of first_only before the test of
\* required: an empty result returns None also when the element is required
FindElementResult_FirstOnlyFirst(elements, element_type, locator, p, required, first_only, searches) ==
    IF first_only
    THEN IF ~Truthy(elements)
         THEN Return(PyNone, 1, searches, elements)
         ELSE IF elements.t = "list"
              THEN Return(PyElem(elements.items[1]), 1, searches, elements)
              ELSE Raise("TypeError", EmptyMsg, 1, searches, elements)
    ELSE IF required /\ ~Truthy(elements)
         THEN Raise("NoSuchElementException",
                    Msg("notfound", element_type, locator.s, p.strategy,
                        p.query, <<>>),
                    1, searches, elements)
         ELSE Return(elements, 1, searches, elements)

\* the end of find_element raising on every empty result, required or not
FindElementResult_AlwaysRequired(elements, element_type, locator, p, required, first_only, searches) ==
    IF ~Truthy(elements)
    THEN Raise("NoSuchElementException",
               Msg("notfound", element_type, locator.s, p.strategy, p.query,
                   <<>>),
               1, searches, elements)
    ELSE IF first_only
         THEN IF elements.t = "list"
              THEN Return(PyElem(elements.items[1]), 1, searches, elements)
              ELSE Raise("TypeError", EmptyMsg, 1, searches, elements)
         ELSE Return(elements, 1, searches, elements)

\* the part of find_element after the strategy method returned elements
FindElementResult(elements, element_type, locator, p, required, first_only, searches) ==
    IF required /\ ~Truthy(elements)
    THEN Raise("NoSuchElementException",
               Msg("notfound", element_type, locator.s, p.strategy, p.query,
                   <<>>),
               1, searches, elements)
    ELSE IF first_only
         THEN IF ~Truthy(elements)
              THEN Return(PyNone, 1, searches, elements)
              ELSE IF elements.t = "list"
                   THEN Return(PyElem(elements.items[1]), 1, searches,
                               elements)
                   ELSE Raise("TypeError", EmptyMsg, 1, searches, elements)
         ELSE Return(elements, 1, searches, elements)

FindElement(locator, tag, required, parent, first_only, drv) ==
    IF Truthy(parent) /\ ~IsWebElement(parent)
    THEN Raise("ValueError", Msg("parent", <<>>, <<>>, <<>>, <<>>, <<>>),
               0, 0, NoCandidates)
    ELSE IF IsWebElement(locator)
    THEN Return(locator, 0, 0, NoCandidates)
    ELSE
    LET p == GetStrategy(locator.s)
    IN  IF p.exc = "ValueError"
        THEN Raise("ValueError",
                   Msg("parse", <<>>, p.msg.locator, <<>>, <<>>,
                       p.msg.example),
                   1, 0, NoCandidates)
        ELSE IF ~AliasKnown(p.strategy)
        THEN Raise("KeyError", Msg("key", <<>>, <<>>, p.strategy, <<>>, <<>>),
                   1, 0, NoCandidates)
        ELSE
        LET tc == GetTagAndConstraints(tag)
            r  == StrategyMethod(ResolveAlias(p.strategy), p.query, tc.tag,
                                 tc.constraints,
                                 IF Truthy(parent) THEN parent ELSE PyDriver,
                                 drv)
        IN  IF r.exc # "none"
            THEN Raise(r.exc, EmptyMsg, 1, r.searches, NoCandidates)
            ELSE FindElementResult(r.value, ElementType(tag), locator, p,
                                   required, first_only, r.searches)

\* find_elements; a list locator is a list of elements to filter by tag,
\* junk says that the list holds something that is no WebElement
FindElements(locator, junk, tag, required, parent, drv) ==
    IF IsWebElement(locator)
    THEN Return(PyList(<<locator.e>>), 0, 0, NoCandidates)
    ELSE IF locator.t = "list"
    THEN IF junk
         THEN Raise("ValueError", Msg("list", <<>>, <<>>, <<>>, <<>>, <<>>),
                    0, 0, NoCandidates)
         ELSE LET tc == GetTagAndConstraints(tag)
                  r  == Filter(locator, tc.tag, tc.constraints, 0)
              IN  Return(r.value, 0, 0, NoCandidates)
    ELSE FindElement(locator, tag, required, parent, FALSE, drv)

----------------------------------------------------------------------------
(* Base._escape_xpath_value and Base.is_text_present                       *)

\* whether the characters of sub occur in s one after the other: sub in s
Contains(sub, s) ==
    \E i \in 1..(Len(s) - Len(sub) + 1) : SubSeq(s, i, i + Len(sub) - 1) = sub

\* sep.join(value.split(c)): every c of value replaced by sep
RECURSIVE SplitJoin(_, _, _)
SplitJoin(value, c, sep) ==
    IF value = <<>>
    THEN <<>>
    ELSE (IF Head(value) = c THEN sep ELSE <<Head(value)>>)
             \o SplitJoin(Tail(value), c, sep)

\* _escape_xpath_value, were it to quote with apostrophes whatever the value
EscapeXpathValue_AlwaysApostrophe(value) == <<"'">> \o value \o <<"'">>

\* Base._escape_xpath_value
EscapeXpathValue(value) ==
    IF InSeq("\"", value) /\ InSeq("'", value)
    THEN <<"c","o","n","c","a","t","(","'">>
             \o SplitJoin(value, "'", <<"'",","," ","\"","'","\"",","," ","'">>)
             \o <<"'",")">>
    ELSE IF InSeq("'", value)
         THEN <<"\"">> \o value \o <<"\"">>
         ELSE <<"'">> \o value \o <<"'">>

\* the locator is_text_present searches with
TextLocator(text) ==
    <<"x","p","a","t","h",":","/","/","*","[","c","o","n","t","a","i","n","s","(",".",","," ">>
        \o EscapeXpathValue(text) \o <<")","]">>

\* sep.join(parts) for a list of strings
RECURSIVE JoinWith(_, _)
JoinWith(parts, sep) ==
    IF parts = <<>>
    THEN <<>>
    ELSE IF Len(parts) = 1
         THEN parts[1]
         ELSE parts[1] \o sep \o JoinWith(Tail(parts), sep)

AttrId == <<"@","i","d">>

AttrName == <<"@","n","a","m","e">>

AttrHref == <<"@","h","r","e","f">>

AttrSrc == <<"@","s","r","c">>

AttrAlt == <<"@","a","l","t">>

AttrValue == <<"@","v","a","l","u","e">>

NormalizedText ==
    <<"n","o","r","m","a","l","i","z","e","-","s","p","a","c","e","(","d","e","s","c","e","n">>
        \o <<"d","a","n","t","-","o","r","-","s","e","l","f",":",":","t","e","x","t","(",")",")">>

\* _find_by_default: key_attrs = _key_attrs[tag] if tag in _key_attrs
\* else _key_attrs[None]
KeyAttrs(tag) ==
    IF tag.t = "None"
    THEN <<AttrId, AttrName>>
    ELSE CASE tag.s = <<"a">> -> <<AttrId, AttrName, AttrHref, NormalizedText>>
           [] tag.s = <<"i","m","g">> -> <<AttrId, AttrName, AttrSrc, AttrAlt>>
           [] tag.s = <<"i","n","p","u","t">> -> <<AttrId, AttrName, AttrValue, AttrSrc>>
           [] tag.s = <<"b","u","t","t","o","n">> -> <<AttrId, AttrName, AttrValue, NormalizedText>>
           [] OTHER -> <<AttrId, AttrName>>

\* _get_base_url, the guard left out: '/'.join(url.split('/')[:-1]) always
GetBaseUrl_AlwaysCut(url) ==
    IF InSeq("/", url)
    THEN SubSeq(url, 1, (CHOOSE i \in 1..Len(url) :
                            /\ url[i] = "/"
                            /\ \A j \in (i + 1)..Len(url) : url[j] # "/") - 1)
    ELSE <<>>

\* _get_base_url: if '/' in url: url = '/'.join(url.split('/')[:-1])
GetBaseUrl(url) ==
    IF InSeq("/", url)
    THEN SubSeq(url, 1, (CHOOSE i \in 1..Len(url) :
                            /\ url[i] = "/"
                            /\ \A j \in (i + 1)..Len(url) : url[j] # "/") - 1)
    ELSE url

\* _get_attrs_with_url(key_attrs, criteria)
GetAttrsWithUrl(key_attrs, criteria, url) ==
    LET xpath_url == EscapeXpathValue(GetBaseUrl(url) \o <<"/">> \o criteria)
        present == SelectSeq(<<AttrSrc, AttrHref>>, LAMBDA a : InSeq(a, key_attrs))
    IN  [i \in 1..Len(present) |-> present[i] \o <<"=">> \o xpath_url]

\* the name of a constraint as text
ConstraintName(c) ==
    CASE c.name = "type" -> <<"t","y","p","e">>
      [] c.name = "name" -> <<"n","a","m","e">>

\* _get_xpath_constraint(name, value)
XpathConstraintText(c) ==
    IF c.isList
    THEN <<"@">> \o ConstraintName(c) \o <<"[","."," ","="," ","'">>
             \o JoinWith(c.values, <<"'"," ","o","r"," ","."," ","="," ","'">>)
             \o <<"'","]">>
    ELSE <<"@">> \o ConstraintName(c) \o <<"=","'">> \o c.value \o <<"'">>

\* _get_xpath_constraints(constraints)
XpathConstraintTexts(constraints) ==
    [i \in 1..Len(constraints) |-> XpathConstraintText(constraints[i])]

\* _find_by_default: the expression handed to find_elements_by_xpath
DefaultXpath(criteria, tag, constraints, url) ==
    LET key_attrs == KeyAttrs(tag)
        xpath_criteria == EscapeXpathValue(criteria)
        xpath_tag == IF tag.t = "None" THEN <<"*">> ELSE tag.s
        xpath_constraints == XpathConstraintTexts(constraints)
        xpath_searchers ==
            [i \in 1..Len(key_attrs) |-> key_attrs[i] \o <<"=">> \o xpath_criteria]
                \o GetAttrsWithUrl(key_attrs, criteria, url)
    IN  <<"/","/">> \o xpath_tag \o <<"[">>
            \o JoinWith(xpath_constraints, <<" ","a","n","d"," ">>)
            \o (IF xpath_constraints # <<>> THEN <<" ","a","n","d"," ">> ELSE <<>>)
            \o <<"(">> \o JoinWith(xpath_searchers, <<" ","o","r"," ">>) \o <<")","]">>

----------------------------------------------------------------------------
(* The predicates of the wait_for_* wrappers: one evaluation of func, with *)
(* what the driver answers at that moment (ans: the lookups of the finder, *)
(* displayed for is_displayed(), contains for "text in element.text" and   *)
(* value for the result of the script of wait_for_script).                 *)

PredReturn(value) == [kind |-> "return", exc |-> "none", value |-> value, msg |-> EmptyMsg]

PredRaise(exc, msg) == [kind |-> "raise", exc |-> exc, value |-> PyNone, msg |-> msg]

\* an outcome of find_element as the outcome of a predicate
OfFind(o) == IF o.kind = "raise" THEN PredRaise(o.exc, o.msg) ELSE PredReturn(o.value)

\* wait_for_element: lambda _: self.find_element(locator, required=False)
PredElement(call, ans) ==
    OfFind(FindElement(call.locator, PyNone, FALSE, PyNone, TRUE, ans))

\* wait_for_element_to_be_enabled: lambda _: self.is_element_enabled(locator);
\* neither Waiting nor Base defines is_element_enabled (Base has is_enabled)
PredEnabled(call, ans) == PredRaise("AttributeError", EmptyMsg)

\* wait_for_element_to_be_visible: lambda _: self.is_visible(locator)
PredVisible(call, ans) ==
    LET o == FindElement(call.locator, PyNone, FALSE, PyNone, TRUE, ans)
    IN  IF o.kind = "raise"
        THEN PredRaise(o.exc, o.msg)
        ELSE IF Truthy(o.value)
             THEN PredReturn(PyBool(ans.displayed))
             ELSE PredReturn(PyNone)

\* wait_for_element_to_contain: lambda _: text in self.find_element(locator).text
PredContain(call, ans) ==
    LET o == FindElement(call.locator, PyNone, TRUE, PyNone, TRUE, ans)
    IN  IF o.kind = "raise"
        THEN PredRaise(o.exc, o.msg)
        ELSE PredReturn(PyBool(ans.contains))

\* wait_for_script: lambda driver: driver.execute_script(script)
PredScript(call, ans) == PredReturn(ans.value)

\* wait_for_page_to_contain: lambda _: self.is_text_present(text)
PredPage(call, ans) ==
    LET o == FindElement(PyStr(TextLocator(call.text)), PyNone, FALSE, PyNone, TRUE, ans)
    IN  IF o.kind = "raise"
        THEN PredRaise(o.exc, o.msg)
        ELSE PredReturn(PyBool(o.value # PyNone))

Predicate(call, ans) ==
    CASE call.fn = "wait_for_element" -> PredElement(call, ans)
      [] call.fn = "wait_for_element_to_be_enabled" -> PredEnabled(call, ans)
      [] call.fn = "wait_for_element_to_be_visible" -> PredVisible(call, ans)
      [] call.fn = "wait_for_element_to_contain" -> PredContain(call, ans)
      [] call.fn = "wait_for_script" -> PredScript(call, ans)
      [] call.fn = "wait_for_page_to_contain" -> PredPage(call, ans)

----------------------------------------------------------------------------
(* Waiting._wait_until and Waiting._wait_until_not.  Both run the loop of  *)
(* selenium's WebDriverWait (until / until_not) with its default           *)
(* ignored_exceptions, (NoSuchElementException,):                          *)
(*     end_time = time.time() + timeout                                    *)
(*     while True:                                                         *)
(*         try: value = method(driver); if value: return value             *)
(*         except ignored_exceptions: pass        (until_not: return True) *)
(*         time.sleep(poll); if time.time() > end_time: break              *)
(*     raise TimeoutException(message)                                     *)
(* and set the msg of the TimeoutException to the wrapper's message.       *)

IgnoredExceptions == {"NoSuchElementException"}

\* until, were it to ignore every exception
UntilStep_IgnoresEverything(o) ==
    IF o.kind = "raise"
    THEN [act |-> "sleep", value |-> PyNone]
    ELSE IF Truthy(o.value)
         THEN [act |-> "return", value |-> o.value]
         ELSE [act |-> "sleep", value |-> PyNone]

\* what one pass of the loop of until does with the outcome of func
UntilStep(o) ==
    IF o.kind = "raise"
    THEN IF o.exc \in IgnoredExceptions
         THEN [act |-> "sleep", value |-> PyNone]
         ELSE [act |-> "propagate", value |-> PyNone]
    ELSE IF Truthy(o.value)
         THEN [act |-> "return", value |-> o.value]
         ELSE [act |-> "sleep", value |-> PyNone]

\* what one pass of the loop of until_not does with the outcome of func
UntilNotStep(o) ==
    IF o.kind = "raise"
    THEN IF o.exc \in IgnoredExceptions
         THEN [act |-> "return", value |-> PyBool(TRUE)]
         ELSE [act |-> "propagate", value |-> PyNone]
    ELSE IF ~Truthy(o.value)
         THEN [act |-> "return", value |-> o.value]
         ELSE [act |-> "sleep", value |-> PyNone]

\* _wait_until / _wait_until_not chosen by the wrapper's negate
PollStep(negate, o) == IF negate THEN UntilNotStep(o) ELSE UntilStep(o)

\* if time.time() > end_time: break
DeadlinePassed(now, end_time) == now > end_time

\* the message a wrapper formats for its TimeoutException: which text, and
\* the values formatted into it
FailureMessage(call) ==
    [fn |-> call.fn,
     negate |-> IF call.fn = "wait_for_script" THEN FALSE ELSE call.negate,
     locator |-> call.locator, text |-> call.text, script |-> call.script,
     timeout |-> IF call.fn = "wait_for_script" THEN 0 ELSE call.timeout]

\* the message of an exception that is not the wrapper's
NoFailureMessage ==
    [fn |-> "none", negate |-> FALSE, locator |-> PyNone, text |-> <<>>,
     script |-> <<>>, timeout |-> 0]

\* the TimeoutException as WebDriverWait raises it, were its msg left alone
TimeoutRaised_LibraryMessage(message) ==
    [kind |-> "raise", exc |-> "TimeoutException", value |-> PyNone,
     msg |-> EmptyMsg, failure |-> NoFailureMessage]

\* except TimeoutException as excp: excp.msg = message; raise
TimeoutRaised(message) ==
    [kind |-> "raise", exc |-> "TimeoutException", value |-> PyNone,
     msg |-> EmptyMsg, failure |-> message]

WaitReturned(value) ==
    [kind |-> "return", exc |-> "none", value |-> value, msg |-> EmptyMsg,
     failure |-> NoFailureMessage]

\* an exception of func that the loop does not ignore leaves the wrapper
\* as it is
WaitPropagated(o) ==
    [kind |-> "raise", exc |-> o.exc, value |-> PyNone, msg |-> o.msg,
     failure |-> NoFailureMessage]

----------------------------------------------------------------------------
(* The browser's windows.  A window is known by its handle; window.id,     *)
(* window.name, the title and the URL are what the browser answers for it. *)
(* None is the string NoneStr.                                             *)

HA == <<"A">>

HB == <<"B">>

HC == <<"C">>

\* the handles in the order in which the browser opens the windows
AllHandles == <<HA, HB, HC>>

WindowAttrs(h) ==
    CASE h = HA -> [id |-> NoneStr, name |-> <<>>, title |-> <<"t">>, url |-> <<"u">>]
      [] h = HB -> [id |-> <<"t">>, name |-> <<"n","e","w">>, title |-> <<"x">>, url |-> <<"u">>]
      [] h = HC -> [id |-> <<"x">>, name |-> <<"B">>, title |-> <<"t">>, url |-> <<"f","t","p",":","v">>]

Undefined == <<"u","n","d","e","f","i","n","e","d">>

IsOpen(h, handles) == InSeq(h, handles)

\* _get_current_window_info for the open window h:
\* WindowInfo(handle, id, name, title, url)
CurrentWindowInfo(h) ==
    LET a == WindowAttrs(h)
    IN  [handle |-> h,
         id |-> IF a.id # NoneStr THEN a.id ELSE Undefined,
         name |-> IF a.name # <<>> THEN a.name ELSE Undefined,
         title |-> IF a.title # <<>> THEN a.title ELSE Undefined,
         url |-> IF a.url # <<>> THEN a.url ELSE Undefined]

----------------------------------------------------------------------------
(* WindowManager._get_selector and the selectors of WindowManager._select  *)

\* str.upper()
Upper(s) == [i \in 1..Len(s) |-> UpperChar(s[i])]

Selectors == {<<"d","e","f","a","u","l","t">>, <<"i","d">>, <<"n","a","m","e">>, <<"t","i","t","l","e">>, <<"u","r","l">>}

\* re.search('^ ?(\w+) ?[:=] ?(.+)', locator) and what _get_selector makes
\* of it: (selector, element), or ('default', locator)
GetSelector(locator) ==
    LET i0 == IF Len(locator) >= 1 /\ locator[1] = " " THEN 2 ELSE 1
        n == WordRun(locator, i0)
        tail == MatchTail(locator, i0 + n)
        selector == SubSeq(locator, i0, i0 + n - 1)
    IN  IF n >= 1 /\ tail.matched /\ selector \in Selectors
        THEN [strategy |-> selector, locator |-> tail.q]
        ELSE [strategy |-> <<"d","e","f","a","u","l","t">>, locator |-> locator]

\* _select_by_default, were it to compare the title only
SelectorMatches_TitleOnly(strategy, criteria, info) == info.title = criteria

\* the comparison a selector makes with the descriptor of a window:
\* _select_by_default goes through the five fields, the others are the
\* matcher of _select_by_id, _select_by_name, _select_by_title, _select_by_url
SelectorMatches(strategy, criteria, info) ==
    CASE strategy = <<"d","e","f","a","u","l","t">> ->
             criteria \in {info.handle, info.id, info.name, info.title, info.url}
      [] strategy = <<"i","d">> -> info.id = criteria
      [] strategy = <<"n","a","m","e">> -> info.name = criteria
      [] strategy = <<"t","i","t","l","e">> -> info.title = criteria
      [] strategy = <<"u","r","l">> -> info.url = criteria

\* _select_excluded, were it to take the first handle whatever excludes says
NotExcluded_KeepsAll(handles, excludes) == handles

\* for handle in self.driver.window_handles: if handle not in excludes
RECURSIVE NotExcluded(_, _)
NotExcluded(handles, excludes) ==
    IF handles = <<>>
    THEN <<>>
    ELSE IF InSeq(Head(handles), excludes)
         THEN NotExcluded(Tail(handles), excludes)
         ELSE <<Head(handles)>> \o NotExcluded(Tail(handles), excludes)

\* select_window: timeout = timeout + epoch
Deadline(epoch, timeout) == epoch + timeout

\* _select, were it to give up at the first failure
DeadlineExpired_AtOnce(now, deadline) == TRUE

\* _select: if time.time() > timeout: raise
DeadlineExpired(now, deadline) == now > deadline

SelectReturned(value) == [kind |-> "return", exc |-> "none", value |-> value]

SelectRaised == [kind |-> "raise", exc |-> "NoSuchWindowException", value |-> NoneStr]

----------------------------------------------------------------------------
(* The components at rest: each specification below runs one component and *)
(* leaves the others as they are here.                                     *)

NotCalled ==
    [exc |-> "notcalled", strategy |-> <<>>, query |-> <<>>,
     usedRegex |-> FALSE, msg |-> NoMsg]

ParserIdle ==
    /\ p_locator = <<>>
    /\ p_out = NotCalled
    /\ p_pc = "idle"

NoCall ==
    [fn |-> "none", locator |-> PyNone, junk |-> FALSE, tag |-> PyNone,
     required |-> FALSE, parent |-> PyNone, first_only |-> FALSE]

NoOutcome ==
    [kind |-> "none", exc |-> "none", value |-> PyNone, msg |-> EmptyMsg,
     parses |-> 0, searches |-> 0, candidates |-> NoCandidates]

FinderIdle ==
    /\ f_call = NoCall
    /\ f_out = NoOutcome
    /\ f_pc = "idle"

NoWaitCall ==
    [fn |-> "none", locator |-> PyNone, text |-> <<>>, script |-> <<>>,
     negate |-> FALSE, timeout |-> 0]

NoPred == [kind |-> "none", exc |-> "none", value |-> PyNone, msg |-> EmptyMsg]

NoWaitOutcome ==
    [kind |-> "none", exc |-> "none", value |-> PyNone, msg |-> EmptyMsg,
     failure |-> NoFailureMessage]

WaiterIdle ==
    /\ w_call = NoWaitCall
    /\ w_pc = "idle"
    /\ w_now = 0
    /\ w_start = 0
    /\ w_end = 0
    /\ w_evals = 0
    /\ w_sleeps = 0
    /\ w_seen = {}
    /\ w_last = NoPred
    /\ w_out = NoWaitOutcome

NoSelectCall == [list |-> FALSE, s |-> <<>>, excludes |-> <<>>, timeout |-> 0]

NoSelectOutcome == [kind |-> "none", exc |-> "none", value |-> NoneStr]

SelectorAtRest ==
    /\ s_locator = [list |-> FALSE, s |-> <<>>, excludes |-> <<>>]
    /\ s_sel = <<>>
    /\ s_starting = NoneStr
    /\ s_todo = <<>>
    /\ s_epoch = 0
    /\ s_deadline = 0
    /\ s_attempts = 0
    /\ s_entry = NoneStr
    /\ s_out = NoSelectOutcome

WindowIdle ==
    /\ d_handles = <<HA>>
    /\ d_current = HA
    /\ d_next = 1
    /\ s_call = NoSelectCall
    /\ s_pc = "off"
    /\ s_now = 0
    /\ SelectorAtRest

----------------------------------------------------------------------------
(* The parser on its own: _get_strategy applied to every string of at most *)
(* MaxLocLen characters of Alphabet and to the longer SampleLocators.      *)

MaxLocLen == 4

Alphabet == {"/", "(", ".", "#", "@", ":", "=", " ", "x", "X", "-", "\n"}

Strings(n) == UNION {[1..k -> Alphabet] : k \in 0..n}

SampleLocators ==
    { <<"i","d",":","t","h","e","I","D">>,                      \* id:theID
      <<"c","l","a","s","s"," ","n","a","m","e"," ","="," ","s","p","i","c","y">>,
      <<"B","y"," ","I","D",":","a">>,                          \* By ID:a
      <<"#","a",":","b">>,                                      \* #a:b
      <<".","x","=","y">>,                                      \* .x=y
      <<"@","l","o","g","i","n">>,                              \* @login
      <<"n","o","-","s","e","p","a","r","a","t","o","r","-","h","e","r","e">>,
      <<"a"," ","b"," ","c",":","d">>,                          \* a b c:d
      <<"f","o","o",":","b","a","r">> }                         \* foo:bar

ParserInit ==
    /\ p_locator \in Strings(MaxLocLen) \cup SampleLocators
    /\ p_out = NotCalled
    /\ p_pc = "call"
    /\ FinderIdle
    /\ WaiterIdle
    /\ WindowIdle

\* the call _get_strategy(p_locator)
ParseLocator ==
    /\ p_pc = "call"
    /\ p_out' = GetStrategy(p_locator)
    /\ p_pc' = "done"
    /\ UNCHANGED p_locator
    /\ UNCHANGED finderVars
    /\ UNCHANGED waiterVars
    /\ UNCHANGED windowVars

ParserNext == ParseLocator

ParserSpec == ParserInit /\ [][ParserNext]_vars

----------------------------------------------------------------------------
(* The finder: one call of find_element or find_elements, with arguments   *)
(* of every shape and every answer of the driver to a native lookup of at  *)
(* most MaxHits elements.                                                  *)

MaxHits == 2

E1 == [eid |-> 1, tag_name |-> <<"I","N","P","U","T">>, type |-> <<"c","h","e","c","k","b","o","x">>, name |-> NoneStr]

E2 == [eid |-> 2, tag_name |-> <<"h","1">>, type |-> NoneStr, name |-> NoneStr]

E3 == [eid |-> 3, tag_name |-> <<"i","n","p","u","t">>, type |-> <<"t","e","x","t">>, name |-> <<"q">>]

Elements == {E1, E2, E3}

ElementLists(n) == UNION {[1..k -> Elements] : k \in 0..n}

FindSamples ==
    { <<"i","d",":","a">>,                                         \* id:a,
      <<"x",":","a">>,                                             \* x:a,
      <<"B","y"," ","I","D"," ","="," ","a">>,                     \* By ID = a,
      <<"i","d","e","n","t","i","f","i","e","r",":","a">>,         \* identifier:a,
      <<"d","o","m",":","a">>,                                     \* dom:a,
      <<"j","q",":","a">>,                                         \* jq:a,
      <<"d","e","f","a","u","l","t",":","a">>,                     \* default:a,
      <<"c","s","s",":","a">>,                                     \* css:a,
      <<"c","l","a","s","s"," ","n","a","m","e"," ","="," ","a">>, \* class name = a,
      <<"f","o","o",":","a">>,                                     \* foo:a,
      <<"x","x","=","a">>,                                         \* xx=a,
      <<"#","a">>,                                                 \* #a,
      <<"/","/","a">>,                                             \* //a,
      <<"@","a">>,                                                 \* @a,
      <<"#">>,                                                     \* #,
      <<"n","o","-","s","e","p","a","r","a","t","o","r","-","h","e","r","e">>, \* no-separator-here,
      <<"x">>,                                                     \* x,
      <<":","a">>,                                                 \* :a
      <<>> }

FindLocators ==
    {PyStr(s) : s \in FindSamples}
        \cup {PyElem(E1)}

FindTags == {PyNone, PyStr(<<"h","1">>), PyStr(<<"C","h","e","c","k","b","o","x">>)}

\* parent: absent, an element, a str that is no element, an empty str
FindParents == {PyNone, PyElem(E2), PyStr(<<"b","o","d","y">>), PyStr(<<>>)}

\* execute_script answers with null, one element or a list
ScriptResults == {PyNone, PyElem(E1), PyList(<<>>), PyList(<<E3, E1>>)}

DriverAnswers ==
    [hits : ElementLists(MaxHits), hits2 : {<<>>, <<E1>>},
     script : ScriptResults]

FinderInit ==
    /\ f_call \in
          [fn : {"find_element"}, locator : FindLocators, junk : {FALSE},
           tag : FindTags, required : BOOLEAN, parent : FindParents,
           first_only : BOOLEAN]
          \cup
          [fn : {"find_elements"}, locator : FindLocators, junk : {FALSE},
           tag : FindTags, required : BOOLEAN, parent : FindParents,
           first_only : {FALSE}]
          \cup
          [fn : {"find_elements"},
           locator : {PyList(l) : l \in ElementLists(MaxHits)},
           junk : BOOLEAN, tag : FindTags, required : {FALSE},
           parent : {PyNone}, first_only : {FALSE}]
    /\ f_out = NoOutcome
    /\ f_pc = "call"
    /\ ParserIdle
    /\ WaiterIdle
    /\ WindowIdle

\* the call find_element(locator, tag, required, parent, first_only)
CallFindElement ==
    /\ f_pc = "call"
    /\ f_call.fn = "find_element"
    /\ \E drv \in DriverAnswers :
          f_out' = FindElement(f_call.locator, f_call.tag, f_call.required,
                               f_call.parent, f_call.first_only, drv)
    /\ f_pc' = "done"
    /\ UNCHANGED f_call
    /\ UNCHANGED parserVars
    /\ UNCHANGED waiterVars
    /\ UNCHANGED windowVars

\* the call find_elements(locator, tag, required, parent)
CallFindElements ==
    /\ f_pc = "call"
    /\ f_call.fn = "find_elements"
    /\ \E drv \in DriverAnswers :
          f_out' = FindElements(f_call.locator, f_call.junk, f_call.tag,
                                f_call.required, f_call.parent, drv)
    /\ f_pc' = "done"
    /\ UNCHANGED f_call
    /\ UNCHANGED parserVars
    /\ UNCHANGED waiterVars
    /\ UNCHANGED windowVars

FinderNext == CallFindElement \/ CallFindElements

FinderSpec == FinderInit /\ [][FinderNext]_vars

----------------------------------------------------------------------------
\* C1: shorthand always wins.  After _get_strategy, a locator that starts
\* with "/", "(" or "." is parsed as strategy xpath with the whole string
\* as query; one that starts with "#" as strategy id with exactly the
\* leading "#" stripped; one that starts with "@" as strategy link with
\* exactly the leading "@" stripped; and in none of these cases was the
\* generic strategy:query pattern consulted, also when the string holds
\* ":" or "=".
C1_ShorthandWins ==
    p_pc = "done" =>
        /\ StartsWith(p_locator, {"/", "(", "."}) =>
              /\ p_out.exc = "none"
              /\ p_out.strategy = <<"x","p","a","t","h">>
              /\ p_out.query = p_locator
              /\ ~p_out.usedRegex
        /\ StartsWith(p_locator, {"#"}) =>
              /\ p_out.exc = "none"
              /\ p_out.strategy = <<"i","d">>
              /\ <<"#">> \o p_out.query = p_locator
              /\ ~p_out.usedRegex
        /\ StartsWith(p_locator, {"@"}) =>
              /\ p_out.exc = "none"
              /\ p_out.strategy = <<"l","i","n","k">>
              /\ <<"@">> \o p_out.query = p_locator
              /\ ~p_out.usedRegex

\* C1 witness: "#x:X" (a shorthand locator holding a separator) was parsed
C1_Witness ==
    /\ p_pc = "done"
    /\ p_locator = <<"#", "x", ":", "X">>
    /\ p_out.query = <<"x", ":", "X">>

----------------------------------------------------------------------------
(* What the claims about the finder speak of.                              *)

\* the call was made with a locator string and a scope that passes the
\* check of find_element (absent, falsy or an element)
StringCallDone ==
    /\ f_pc = "done"
    /\ f_call.locator.t = "str"
    /\ ~(Truthy(f_call.parent) /\ ~IsWebElement(f_call.parent))

HasShorthand(s) == StartsWith(s, {"/", "(", ".", "#", "@"})

\* the locator parses and its strategy name is in the alias table
WellFormed(s) ==
    /\ GetStrategy(s).exc = "none"
    /\ AliasKnown(GetStrategy(s).strategy)

\* the strategy method ran and gave back no candidate
ZeroCandidates ==
    /\ f_out.candidates.t \in {"list", "None"}
    /\ ~Truthy(f_out.candidates)

\* C2: malformed locators fail fast with two distinguishable error kinds.
\* A locator string without shorthand prefix that does not match the
\* strategy<separator>query pattern makes the call raise ValueError with a
\* message that holds the original string and an example of valid usage
\* (the example itself is well formed); a string that matches and whose
\* lower-cased strategy name is not in the alias table makes it raise
\* KeyError; in both cases no driver lookup has been made.
C2_MalformedFailFast ==
    StringCallDone =>
        LET s == f_call.locator.s
            m == StrategyRegex(s)
        IN  /\ (~HasShorthand(s) /\ ~m.matched) =>
                  /\ f_out.kind = "raise"
                  /\ f_out.exc = "ValueError"
                  /\ f_out.msg.text = "parse"
                  /\ f_out.msg.locator = s
                  /\ f_out.msg.example = ExampleUsage
                  /\ WellFormed(f_out.msg.example)
                  /\ f_out.searches = 0
            /\ (~HasShorthand(s) /\ m.matched /\ ~AliasKnown(Lower(m.g1))) =>
                  /\ f_out.kind = "raise"
                  /\ f_out.exc = "KeyError"
                  /\ f_out.searches = 0

\* C2 witness: find_element('no-separator-here') raised the parse error
C2_Witness ==
    /\ StringCallDone
    /\ f_call.fn = "find_element"
    /\ f_call.locator.s = <<"n","o","-","s","e","p","a","r","a","t","o","r","-","h","e","r","e">>
    /\ f_out.exc = "ValueError"
    /\ f_out.msg.locator = f_call.locator.s

\* C2 second witness: find_element('foo:a') raised the alias error
C2_WitnessAlias ==
    /\ StringCallDone
    /\ f_call.locator.s = <<"f","o","o",":","a">>
    /\ f_out.exc = "KeyError"

\* the number of driver lookups one run of the strategy makes
LookupsOf(canonical) == IF canonical = <<"i","d","e","n","t","i","f","i","e","r">> THEN 2 ELSE 1

\* C3 as claimed: a required find on a well-formed locator with zero
\* candidates raises NoSuchElementException at once, after one run of the
\* strategy, with a message that carries the original locator, the
\* alias-resolved canonical strategy name and the query.
C3_NotFoundCarriesCanonical ==
    (StringCallDone /\ f_call.required /\ WellFormed(f_call.locator.s)
        /\ ZeroCandidates) =>
        LET p == GetStrategy(f_call.locator.s)
        IN  /\ f_out.kind = "raise"
            /\ f_out.exc = "NoSuchElementException"
            /\ f_out.parses = 1
            /\ f_out.searches = LookupsOf(ResolveAlias(p.strategy))
            /\ f_out.msg.locator = f_call.locator.s
            /\ f_out.msg.strategy = ResolveAlias(p.strategy)
            /\ f_out.msg.query = p.query

\* C3 as amended: the same, but the strategy name of the message is the
\* name as _get_strategy parsed it (lower-cased, not alias-resolved): the
\* canonical name for a shorthand locator, the alias as written otherwise.
C3_NotFoundCarriesParsed ==
    (StringCallDone /\ f_call.required /\ WellFormed(f_call.locator.s)
        /\ ZeroCandidates) =>
        LET s == f_call.locator.s
            p == GetStrategy(s)
        IN  /\ f_out.kind = "raise"
            /\ f_out.exc = "NoSuchElementException"
            /\ f_out.parses = 1
            /\ f_out.searches = LookupsOf(ResolveAlias(p.strategy))
            /\ f_out.msg.locator = s
            /\ f_out.msg.query = p.query
            /\ HasShorthand(s) => f_out.msg.strategy = ResolveAlias(p.strategy)
            /\ ~HasShorthand(s) =>
                  f_out.msg.strategy = Lower(StrategyRegex(s).g1)

\* C3 witness: find_element('By ID = a') found nothing and raised, its
\* message naming the strategy 'by id'
C3_Witness ==
    /\ StringCallDone
    /\ f_call.required
    /\ f_call.locator.s = <<"B","y"," ","I","D"," ","="," ","a">>
    /\ ZeroCandidates
    /\ f_out.exc = "NoSuchElementException"
    /\ f_out.msg.strategy = <<"b","y"," ","i","d">>

C5_HandleShortCircuit ==
    (f_pc = "done" /\ IsWebElement(f_call.locator)) =>
        /\ f_out.kind = "return"
        /\ f_out.parses = 0
        /\ f_out.searches = 0
        /\ f_call.first_only => f_out.value = f_call.locator
        /\ ~f_call.first_only => f_out.value = PyList(<<f_call.locator.e>>)


----------------------------------------------------------------------------
(* The waiter: one call of a wait_for_* wrapper.  Time is counted in poll  *)
(* intervals of WebDriverWait (0.5 s): an evaluation of the predicate      *)
(* takes 0..MaxEval intervals, time.sleep(poll) takes 1..MaxSleep of them, *)
(* and the driver answers every evaluation anew.                           *)

MaxTimeout == 2

MaxEval == 1

MaxSleep == 2

WaitHits == {<<>>, <<E1>>, <<E3, E1>>}

WaitLocators ==
    {PyStr(<<"i","d",":","a">>), PyStr(<<"f","o","o",":","a">>), PyStr(<<>>), PyElem(E1)}

WaitTexts == {<<"a">>, <<"a", "'", "\"">>}

WaitScripts == {<<"r","e","t","u","r","n"," ","1">>, <<"1">>}

WaitScriptValues ==
    {PyNone, PyBool(FALSE), PyBool(TRUE), PyStr(<<>>), PyElem(E1), PyList(<<>>)}

ElementWrappers ==
    {"wait_for_element", "wait_for_element_to_be_enabled",
     "wait_for_element_to_be_visible", "wait_for_element_to_contain"}

WaitCalls ==
    [fn : ElementWrappers \ {"wait_for_element_to_contain"},
     locator : WaitLocators, text : {<<>>}, script : {<<>>},
     negate : BOOLEAN, timeout : 0..MaxTimeout]
    \cup
    [fn : {"wait_for_element_to_contain"},
     locator : WaitLocators, text : {<<"a">>}, script : {<<>>},
     negate : BOOLEAN, timeout : 0..MaxTimeout]
    \cup
    [fn : {"wait_for_script"},
     locator : {PyNone}, text : {<<>>}, script : WaitScripts,
     negate : BOOLEAN, timeout : 0..MaxTimeout]
    \cup
    [fn : {"wait_for_page_to_contain"},
     locator : {PyNone}, text : WaitTexts, script : {<<>>},
     negate : BOOLEAN, timeout : 0..MaxTimeout]

\* what the driver can answer to one evaluation of the predicate of call
AnswersFor(call) ==
    [hits : IF call.fn = "wait_for_script" THEN {<<>>} ELSE WaitHits,
     hits2 : {<<>>},
     script : {PyNone},
     displayed : IF call.fn = "wait_for_element_to_be_visible" THEN BOOLEAN ELSE {FALSE},
     contains : IF call.fn = "wait_for_element_to_contain" THEN BOOLEAN ELSE {FALSE},
     value : IF call.fn = "wait_for_script" THEN WaitScriptValues ELSE {PyNone}]

\* the kind of an outcome of the predicate
OutcomeKind(o) ==
    IF o.kind = "raise" THEN o.exc
    ELSE IF Truthy(o.value) THEN "truthy" ELSE "falsy"

WaiterInit ==
    /\ w_call \in WaitCalls
    /\ w_pc = "call"
    /\ w_now \in 0..1
    /\ w_start = 0
    /\ w_end = 0
    /\ w_evals = 0
    /\ w_sleeps = 0
    /\ w_seen = {}
    /\ w_last = NoPred
    /\ w_out = NoWaitOutcome
    /\ ParserIdle
    /\ FinderIdle
    /\ WindowIdle

\* the wrapper up to the loop: wait_for_script refuses a script without
\* "return"; WebDriverWait.until[_not] sets end_time
EnterWait ==
    /\ w_pc = "call"
    /\ IF w_call.fn = "wait_for_script" /\ ~Contains(<<"r","e","t","u","r","n">>, w_call.script)
       THEN /\ w_out' = WaitPropagated(PredRaise("ValueError", EmptyMsg))
            /\ w_pc' = "done"
            /\ UNCHANGED <<w_start, w_end>>
       ELSE /\ w_start' = w_now
            /\ w_end' = w_now + w_call.timeout
            /\ w_pc' = "poll"
            /\ UNCHANGED w_out
    /\ UNCHANGED <<w_call, w_now, w_evals, w_sleeps, w_seen, w_last>>
    /\ UNCHANGED parserVars
    /\ UNCHANGED finderVars
    /\ UNCHANGED windowVars

\* one pass of the loop with the outcome o of the predicate, an evaluation
\* that took e and a sleep that takes d: what becomes of the wrapper
PollPass(call, o, e, d, now, end_time) ==
    LET st == PollStep(call.negate, o)
    IN  CASE st.act = "return" ->
                [done |-> TRUE, out |-> WaitReturned(st.value), now |-> now + e, slept |-> 0]
          [] st.act = "propagate" ->
                [done |-> TRUE, out |-> WaitPropagated(o), now |-> now + e, slept |-> 0]
          [] st.act = "sleep" ->
                IF DeadlinePassed(now + e + d, end_time)
                THEN [done |-> TRUE, out |-> TimeoutRaised(FailureMessage(call)),
                      now |-> now + e + d, slept |-> 1]
                ELSE [done |-> FALSE, out |-> NoWaitOutcome,
                      now |-> now + e + d, slept |-> 1]

\* one pass of the loop: evaluate the predicate, return or propagate, or
\* else sleep and check the deadline
Poll ==
    /\ w_pc = "poll"
    /\ \E ans \in AnswersFor(w_call), e \in 0..MaxEval, d \in 1..MaxSleep :
          /\ w_last' = Predicate(w_call, ans)
          /\ w_out' = PollPass(w_call, w_last', e, d, w_now, w_end).out
          /\ w_pc' = IF PollPass(w_call, w_last', e, d, w_now, w_end).done THEN "done" ELSE "poll"
          /\ w_now' = PollPass(w_call, w_last', e, d, w_now, w_end).now
          /\ w_sleeps' = w_sleeps + PollPass(w_call, w_last', e, d, w_now, w_end).slept
    /\ w_evals' = w_evals + 1
    /\ w_seen' = w_seen \cup {OutcomeKind(w_last')}
    /\ UNCHANGED <<w_call, w_start, w_end>>
    /\ UNCHANGED parserVars
    /\ UNCHANGED finderVars
    /\ UNCHANGED windowVars

WaiterNext == EnterWait \/ Poll

WaiterSpec == WaiterInit /\ [][WaiterNext]_vars


----------------------------------------------------------------------------
(* What the claims about the waiter speak of.                              *)

WaitDone == w_pc = "done"

\* the call is one that reaches the poll primitive: every call but a
\* wait_for_script whose script has no "return"
Polled ==
    ~(w_call.fn = "wait_for_script" /\ ~Contains(<<"r","e","t","u","r","n">>, w_call.script))

\* the wrapper succeeded: it returned a value
WaitSucceeded == WaitDone /\ w_out.kind = "return"

\* the condition was never met: falsy every time for _wait_until, truthy
\* every time for _wait_until_not
NeverMet == w_seen \subseteq {IF w_call.negate THEN "truthy" ELSE "falsy"}

\* C6: on success the poll primitive returns the value the predicate
\* returned on its final evaluation, truthy for _wait_until and falsy for
\* _wait_until_not.
C6_ReturnsPredicateValue ==
    WaitSucceeded =>
        /\ w_last.kind = "return"
        /\ w_out.value = w_last.value
        /\ Truthy(w_out.value) = ~w_call.negate

\* What the code does: on success _wait_until returns the truthy value the
\* predicate returned on its final evaluation; _wait_until_not returns the
\* falsy value the predicate returned on its final evaluation, or True when
\* that final evaluation raised NoSuchElementException.
WaitReturnsPredicateValueOrTrue ==
    WaitSucceeded =>
        IF w_last.kind = "return"
        THEN /\ w_out.value = w_last.value
             /\ Truthy(w_out.value) = ~w_call.negate
        ELSE /\ w_call.negate
             /\ w_last.exc = "NoSuchElementException"
             /\ w_out.value = PyBool(TRUE)

\* a success after earlier evaluations, returning a value that is no bool
ElementReturnedAfterRetry ==
    /\ WaitSucceeded
    /\ w_evals > 1
    /\ w_call.fn = "wait_for_element"
    /\ ~w_call.negate
    /\ w_out.value = PyElem(E3)

FalsyReturnedAfterRetry ==
    /\ WaitSucceeded
    /\ w_evals > 1
    /\ w_call.negate
    /\ w_last.kind = "return"
    /\ w_out.value = PyList(<<>>)

TrueReturnedForNotFound ==
    /\ WaitSucceeded
    /\ w_call.negate
    /\ w_last.exc = "NoSuchElementException"

\* C7: when the condition is never met (falsy every time for _wait_until,
\* truthy every time for _wait_until_not) the predicate is evaluated at
\* least once, the call ends only after the timeout has elapsed, and it
\* ends with a TimeoutException carrying exactly the wrapper's failure
\* message; it never returns a value.
C7_TimeoutWhenNeverMet ==
    /\ (WaitDone /\ Polled /\ NeverMet) =>
        /\ w_evals >= 1
        /\ w_out.kind = "raise"
        /\ w_out.exc = "TimeoutException"
        /\ w_out.failure = FailureMessage(w_call)
        /\ w_now > w_start + w_call.timeout
    /\ (w_out.exc = "TimeoutException") =>
        /\ w_evals >= 1
        /\ w_now > w_start + w_call.timeout

C7_Witness ==
    /\ WaitDone
    /\ Polled
    /\ NeverMet
    /\ w_evals > 1
    /\ w_call.timeout > 0
    /\ w_out.exc = "TimeoutException"
    /\ w_call.fn = "wait_for_script"

C7_WitnessNot ==
    /\ WaitDone
    /\ NeverMet
    /\ w_call.negate
    /\ w_call.timeout = 0
    /\ w_evals = 1
    /\ w_out.exc = "TimeoutException"

\* the predicate raised NoSuchElementException every time it was evaluated
OnlyNotFound == w_evals >= 1 /\ w_seen = {"NoSuchElementException"}

\* C8: in either polarity a NoSuchElementException of the
\* predicate is retried, never surfaced and never turned into a result;
\* when every evaluation raises it the wrapper raises TimeoutException.
C8_NotFoundBecomesTimeout ==
    /\ w_out.exc # "NoSuchElementException"
    /\ (WaitDone /\ OnlyNotFound) =>
           /\ w_out.kind = "raise"
           /\ w_out.exc = "TimeoutException"
           /\ w_now > w_end

\* What the code does: a NoSuchElementException of the predicate is never
\* surfaced.  With negate=False it is retried, and when every evaluation
\* raises it the wrapper raises TimeoutException after the deadline.  With
\* negate=True the first evaluation that raises it ends the wait with the
\* result True.
NotFoundRetriedOrTrue ==
    /\ w_out.exc # "NoSuchElementException"
    /\ (WaitDone /\ OnlyNotFound /\ ~w_call.negate) =>
           /\ w_out.kind = "raise"
           /\ w_out.exc = "TimeoutException"
           /\ w_now > w_end
    /\ (w_last.exc = "NoSuchElementException" /\ w_call.negate) =>
           /\ WaitDone
           /\ w_out = WaitReturned(PyBool(TRUE))

NotFoundTimedOut ==
    /\ WaitDone
    /\ OnlyNotFound
    /\ ~w_call.negate
    /\ w_evals > 1
    /\ w_call.fn = "wait_for_element_to_contain"
    /\ w_out.exc = "TimeoutException"

NotFoundEndedWaitNot ==
    /\ WaitDone
    /\ w_call.negate
    /\ w_call.fn = "wait_for_element_to_contain"
    /\ w_last.exc = "NoSuchElementException"
    /\ w_evals > 1

\* the errors of the locator itself: _get_strategy's ValueError, the
\* KeyError of an unknown strategy, the ValueError of an invalid parent
LocatorErrors == {"ValueError", "KeyError"}

\* C9: when the predicate of a wrapper raises a parse, unknown-alias or
\* invalid-scope error, the wrapper ends on that first evaluation with this
\* very error, without sleeping and without another evaluation; it is never
\* a TimeoutException.
C9_LocatorErrorsPropagate ==
    (w_last.exc \in LocatorErrors) =>
        /\ WaitDone
        /\ w_evals = 1
        /\ w_sleeps = 0
        /\ w_out.kind = "raise"
        /\ w_out.exc = w_last.exc
        /\ w_out.msg = w_last.msg
        /\ w_out.failure = NoFailureMessage

C9_Witness ==
    /\ WaitDone
    /\ w_call.fn = "wait_for_element"
    /\ w_call.locator = PyStr(<<>>)
    /\ w_call.timeout > 0
    /\ w_out.exc = "ValueError"
    /\ w_evals = 1

C9_WitnessAlias ==
    /\ WaitDone
    /\ w_call.negate
    /\ w_last.exc = "KeyError"
    /\ w_out.exc = "KeyError"


----------------------------------------------------------------------------
(* The window selector: one call of select_window, one action per call to  *)
(* the driver, while the browser opens and closes windows and time passes. *)
(* Time is counted in sleeps of _select (0.2 s).                           *)

MaxWinTimeout == 1

\* the clock of the browser's side stops here; the sleeps of _select go on
MaxNow == MaxWinTimeout + 2

StrLocator(s, timeout) == [list |-> FALSE, s |-> s, excludes |-> <<>>, timeout |-> timeout]

ListLocator(excludes, timeout) == [list |-> TRUE, s |-> <<>>, excludes |-> excludes, timeout |-> timeout]

WindowLocators ==
    {<<"c","u","r","r","e","n","t">>,
     <<"M","a","i","n">>,
     <<"n","e","w">>,
     <<"t","i","t","l","e","=","t">>,
     <<"n","a","m","e",":","n","e","w">>,
     <<"t">>,
     <<"B">>,
     <<"z","z">>,
     <<"f","t","p",":","v">>}

SelectCalls ==
    {StrLocator(l, t) : l \in WindowLocators, t \in 0..MaxWinTimeout}
    \cup {ListLocator(e, t) : e \in {<<HA>>, <<HA, HB>>}, t \in 0..MaxWinTimeout}

WindowInit ==
    /\ d_handles = <<HA>>
    /\ d_current = HA
    /\ d_next = 1
    /\ s_call \in SelectCalls
    /\ s_pc = "idle"
    /\ s_now \in 0..1
    /\ SelectorAtRest
    /\ ParserIdle
    /\ FinderIdle
    /\ WaiterIdle

\* self.get_window_handle() inside try / except NoSuchWindowException
CurrentOrNone == IF IsOpen(d_current, d_handles) THEN d_current ELSE NoneStr

Others == <<parserVars, finderVars, waiterVars>>

\* the browser opens its next window
OpenWindow ==
    /\ s_pc \notin {"off", "done"}
    /\ d_next < Len(AllHandles)
    /\ d_handles' = Append(d_handles, AllHandles[d_next + 1])
    /\ d_next' = d_next + 1
    /\ UNCHANGED <<d_current, selectorVars, Others>>

\* a window is closed, by the page or by the user; one window stays
CloseWindow ==
    /\ s_pc \notin {"off", "done"}
    /\ Len(d_handles) > 1
    /\ \E h \in {d_handles[i] : i \in 1..Len(d_handles)} :
          d_handles' = SelectSeq(d_handles, LAMBDA x : x # h)
    /\ UNCHANGED <<d_current, d_next, selectorVars, Others>>

\* time passes while the call runs
Tick ==
    /\ s_pc \notin {"off", "idle", "done"}
    /\ s_now < MaxNow
    /\ s_now' = s_now + 1
    /\ UNCHANGED <<browserVars, s_call, s_pc, s_locator, s_sel, s_starting, s_todo>>
    /\ UNCHANGED <<s_epoch, s_deadline, s_attempts, s_entry, s_out, Others>>

\* select_window up to the loop of _select
CallSelectWindow ==
    /\ s_pc = "idle"
    /\ s_epoch' = s_now
    /\ s_deadline' = Deadline(s_now, s_call.timeout)
    /\ s_locator' = [list |-> s_call.list, s |-> s_call.s, excludes |-> s_call.excludes]
    /\ s_entry' = CurrentOrNone
    /\ s_pc' = "try"
    /\ UNCHANGED <<browserVars, s_call, s_sel, s_starting, s_todo, s_now, s_attempts, s_out, Others>>

\* the try block of _select up to the first call to the driver: the choice
\* of the selector and its get_window_handle()
Try ==
    /\ s_pc = "try"
    /\ s_attempts' = s_attempts + 1
    /\ IF s_locator.list
       THEN /\ s_sel' = <<"e","x","c","l","u","d","e","d">>
            /\ s_starting' = CurrentOrNone
            /\ s_pc' = "list"
            /\ UNCHANGED <<s_locator, s_out>>
       ELSE IF Upper(s_locator.s) = <<"C","U","R","R","E","N","T">>
       THEN /\ IF IsOpen(d_current, d_handles)
               THEN s_out' = SelectReturned(d_current) /\ s_pc' = "done"
               ELSE s_pc' = "except" /\ UNCHANGED s_out
            /\ UNCHANGED <<s_locator, s_sel, s_starting>>
       ELSE IF Upper(s_locator.s) = <<"M","A","I","N">>
       THEN /\ s_sel' = <<"m","a","i","n">>
            /\ s_starting' = CurrentOrNone
            /\ s_pc' = "list"
            /\ UNCHANGED <<s_locator, s_out>>
       ELSE IF Upper(s_locator.s) = <<"N","E","W">>
       THEN /\ s_sel' = <<"n","e","w">>
            /\ s_starting' = CurrentOrNone
            /\ s_pc' = "list"
            /\ UNCHANGED <<s_locator, s_out>>
       ELSE /\ s_sel' = GetSelector(s_locator.s).strategy
            /\ s_locator' = [s_locator EXCEPT !.s = GetSelector(s_locator.s).locator]
            /\ s_starting' = CurrentOrNone
            /\ s_pc' = "list"
            /\ UNCHANGED s_out
    /\ UNCHANGED <<browserVars, s_call, s_todo, s_epoch, s_deadline, s_now, s_entry, Others>>

\* self.driver.window_handles, and what the selector looks for in it
ListHandles ==
    /\ s_pc = "list"
    /\ CASE s_sel = <<"e","x","c","l","u","d","e","d">> ->
              IF NotExcluded(d_handles, s_locator.excludes) = <<>>
              THEN s_pc' = "except" /\ s_todo' = <<>>
              ELSE /\ s_todo' = <<Head(NotExcluded(d_handles, s_locator.excludes))>>
                   /\ s_pc' = "switch"
         [] s_sel = <<"m","a","i","n">> ->
              s_todo' = <<d_handles[1]>> /\ s_pc' = "switch"
         [] s_sel = <<"n","e","w">> ->
              s_todo' = <<d_handles[Len(d_handles)]>> /\ s_pc' = "current"
         [] OTHER ->
              s_todo' = d_handles /\ s_pc' = "visit"
    /\ UNCHANGED <<browserVars, s_call, s_locator, s_sel, s_starting>>
    /\ UNCHANGED <<s_epoch, s_deadline, s_now, s_attempts, s_entry, s_out, Others>>

\* _select_last_index: if handles[-1] == self.driver.current_window_handle
ReadCurrent ==
    /\ s_pc = "current"
    /\ IF IsOpen(d_current, d_handles) /\ s_todo[1] # d_current
       THEN s_pc' = "switch"
       ELSE s_pc' = "except"
    /\ UNCHANGED <<browserVars, s_call, s_locator, s_sel, s_starting, s_todo>>
    /\ UNCHANGED <<s_epoch, s_deadline, s_now, s_attempts, s_entry, s_out, Others>>

\* _select_excluded, _select_main_window, _select_last_index:
\* self.driver.switch_to.window(handle); return current_handle
Switch ==
    /\ s_pc = "switch"
    /\ IF IsOpen(s_todo[1], d_handles)
       THEN /\ d_current' = s_todo[1]
            /\ s_out' = SelectReturned(s_starting)
            /\ s_pc' = "done"
       ELSE /\ s_pc' = "except"
            /\ UNCHANGED <<d_current, s_out>>
    /\ UNCHANGED <<d_handles, d_next, s_call, s_locator, s_sel, s_starting, s_todo>>
    /\ UNCHANGED <<s_epoch, s_deadline, s_now, s_attempts, s_entry, Others>>

\* _select_by_default, _select_by_matcher: the switch_to.window(handle) of
\* the loop over the handles
Visit ==
    /\ s_pc = "visit"
    /\ IF IsOpen(s_todo[1], d_handles)
       THEN d_current' = s_todo[1] /\ s_pc' = "info"
       ELSE s_pc' = "except" /\ UNCHANGED d_current
    /\ UNCHANGED <<d_handles, d_next, s_call, s_locator, s_sel, s_starting, s_todo>>
    /\ UNCHANGED <<s_epoch, s_deadline, s_now, s_attempts, s_entry, s_out, Others>>

\* _select_by_default, _select_by_matcher: _get_current_window_info() and
\* the comparison; after the last handle the loop is left
ReadInfo ==
    /\ s_pc = "info"
    /\ IF ~IsOpen(d_current, d_handles)
       THEN s_pc' = "except" /\ UNCHANGED <<s_todo, s_out>>
       ELSE IF SelectorMatches(s_sel, s_locator.s, CurrentWindowInfo(d_current))
       THEN /\ s_out' = SelectReturned(s_starting)
            /\ s_pc' = "done"
            /\ UNCHANGED s_todo
       ELSE /\ s_todo' = Tail(s_todo)
            /\ s_pc' = IF Tail(s_todo) = <<>> THEN "restore" ELSE "visit"
            /\ UNCHANGED s_out
    /\ UNCHANGED <<browserVars, s_call, s_locator, s_sel, s_starting>>
    /\ UNCHANGED <<s_epoch, s_deadline, s_now, s_attempts, s_entry, Others>>

\* _select_by_default, _select_by_matcher: if starting_handle:
\* switch_to.window(starting_handle); raise NoSuchWindowException
Restore ==
    /\ s_pc = "restore"
    /\ IF s_starting # NoneStr /\ IsOpen(s_starting, d_handles)
       THEN d_current' = s_starting
       ELSE UNCHANGED d_current
    /\ s_pc' = "except"
    /\ UNCHANGED <<d_handles, d_next, s_call, s_locator, s_sel, s_starting, s_todo>>
    /\ UNCHANGED <<s_epoch, s_deadline, s_now, s_attempts, s_entry, s_out, Others>>

\* except NoSuchWindowException: if time.time() > timeout: raise;
\* time.sleep(0.2)
Handler ==
    /\ s_pc = "except"
    /\ IF DeadlineExpired(s_now, s_deadline)
       THEN /\ s_out' = SelectRaised
            /\ s_pc' = "done"
            /\ UNCHANGED s_now
       ELSE /\ s_now' = s_now + 1
            /\ s_pc' = "try"
            /\ UNCHANGED s_out
    /\ UNCHANGED <<browserVars, s_call, s_locator, s_sel, s_starting, s_todo>>
    /\ UNCHANGED <<s_epoch, s_deadline, s_attempts, s_entry, Others>>

\* the steps of select_window
SelectStep ==
    \/ CallSelectWindow
    \/ Try
    \/ ListHandles
    \/ ReadCurrent
    \/ Switch
    \/ Visit
    \/ ReadInfo
    \/ Restore
    \/ Handler

WindowNext == SelectStep \/ OpenWindow \/ CloseWindow \/ Tick

WindowSpec == WindowInit /\ [][WindowNext]_vars

\* the call keeps running: a step of select_window that can be taken is
\* taken
WindowFairSpec == WindowInit /\ [][WindowNext]_vars /\ WF_vars(SelectStep)


----------------------------------------------------------------------------
(* What the claims about the window selector speak of.                     *)

SelectDone == s_pc = "done"

\* what holds of every state of a call: the deadline is start time plus
\* timeout, a call that has ended has made an attempt, and a
\* NoSuchWindowException leaves the call only after the deadline
C10_Safety ==
    /\ (s_pc \notin {"off", "idle"}) => s_deadline = s_epoch + s_call.timeout
    /\ SelectDone => s_attempts >= 1
    /\ SelectDone =>
          \/ s_out.kind = "return"
          \/ s_out = SelectRaised /\ s_now > s_deadline

\* what the handler of a failed attempt does: after the deadline it
\* propagates, before it sleeps and goes back to try
C10_Handler ==
    (s_pc = "except" /\ s_pc' # "except") =>
        IF s_now > s_deadline
        THEN s_pc' = "done" /\ s_out' = SelectRaised
        ELSE s_pc' = "try" /\ s_now' > s_now /\ s_out' = s_out

\* C10: inside select_window a NoSuchWindowException is transient until
\* the deadline (start time + timeout): at least one attempt is made, a
\* failed attempt before the deadline is followed by a sleep and another
\* attempt, the first failure seen after the deadline is propagated, and
\* every call ends by returning or by raising NoSuchWindowException.
C10_TransientUntilDeadline ==
    /\ []C10_Safety
    /\ [][C10_Handler]_vars
    /\ (s_pc = "idle") ~> SelectDone

\* a call that failed, slept, failed again and gave up
C10_Witness ==
    /\ SelectDone
    /\ s_out = SelectRaised
    /\ s_attempts >= 2
    /\ s_call.timeout > 0

\* timeout 0: one attempt, made although the deadline is the start time
C10_WitnessZero ==
    /\ SelectDone
    /\ s_out = SelectRaised
    /\ s_call.timeout = 0
    /\ s_attempts = 1

\* a retry that succeeded on a window opened after the call had started
C10_WitnessRetry ==
    /\ SelectDone
    /\ s_out.kind = "return"
    /\ s_attempts >= 2
    /\ s_call.list
    /\ d_current = HB


\* the call is in a mode that switches windows: every locator but CURRENT
SwitchingCall == s_call.list \/ Upper(s_call.s) # <<"C","U","R","R","E","N","T">>

SelectReturnedOk == SelectDone /\ s_out.kind = "return"

\* C11: when select_window returns in a switching mode, the driver is on
\* an open window and the value returned is the handle that was current
\* when select_window was called (None if that window was closed by then),
\* also after failed attempts and windows opening and closing in between.
C11_ReturnsEntryHandle ==
    (SelectReturnedOk /\ SwitchingCall) =>
        /\ IsOpen(d_current, d_handles)
        /\ s_out.value = s_entry

\* a call that returned something else than its entry handle although the
\* window of the entry handle stayed open to the end
EntryHandleLost ==
    /\ SelectReturnedOk
    /\ SwitchingCall
    /\ s_attempts >= 2
    /\ s_entry # NoneStr
    /\ IsOpen(s_entry, d_handles)
    /\ s_out.value # s_entry


\* an attempt of an explicit-attribute or default search has just ended by
\* raising NoSuchWindowException, or the call has ended with it
SearchRaised ==
    /\ s_sel \in Selectors
    /\ \/ s_pc = "except"
       \/ SelectDone /\ s_out = SelectRaised

\* C12: whenever an explicit-attribute or default search ends by raising
\* NoSuchWindowException, on any attempt, the driver is on the window that
\* was current when the call started, provided that window is still open.
C12_FailureRestoresStart ==
    (SearchRaised /\ s_entry # NoneStr /\ IsOpen(s_entry, d_handles)) =>
        d_current = s_entry

\* the first attempt of a search raised and left the driver on a window
\* other than the open starting window
StartNotRestored ==
    /\ SearchRaised
    /\ s_attempts = 1
    /\ s_starting = s_entry
    /\ IsOpen(s_entry, d_handles)
    /\ d_current # s_entry


\* the call names an explicit strategy: '<s>=<v>' or '<s>:<v>' with s one
\* of id, name, title, url
ExplicitCall ==
    /\ ~s_call.list
    /\ Upper(s_call.s) \notin {<<"C","U","R","R","E","N","T">>, <<"M","A","I","N">>, <<"N","E","W">>}
    /\ GetSelector(s_call.s).strategy # <<"d","e","f","a","u","l","t">>

\* the attribute of window h that the strategy names
NamedAttribute(strategy, h) ==
    CASE strategy = <<"i","d">> -> CurrentWindowInfo(h).id
      [] strategy = <<"n","a","m","e">> -> CurrentWindowInfo(h).name
      [] strategy = <<"t","i","t","l","e">> -> CurrentWindowInfo(h).title
      [] strategy = <<"u","r","l">> -> CurrentWindowInfo(h).url

\* C13: a call with an explicit strategy s and value v can only end
\* switched to a window whose attribute s equals v, on the first attempt
\* and on every attempt made after a failed one.
C13_ExplicitMatchesNamedAttribute ==
    (SelectReturnedOk /\ ExplicitCall) =>
        NamedAttribute(GetSelector(s_call.s).strategy, d_current)
            = GetSelector(s_call.s).locator

\* 'name:new' ended by running the keyword NEW on a retry
ExplicitTurnedKeyword ==
    /\ SelectReturnedOk
    /\ ExplicitCall
    /\ s_sel = <<"n","e","w">>
    /\ CurrentWindowInfo(d_current).name # <<"n","e","w">>

\* 'title=t' ended on a window matched by another field on a retry
ExplicitTurnedDefault ==
    /\ SelectReturnedOk
    /\ ExplicitCall
    /\ s_sel = <<"d","e","f","a","u","l","t">>
    /\ CurrentWindowInfo(d_current).title # <<"t">>


\* the handles of seq that stand before h
Before(h, seq) ==
    {seq[i] : i \in {j \in 1..Len(seq) : \A k \in 1..j : seq[k] # h}}

\* what holds when a call with an exclusion list has ended: after a return
\* the driver is on the first open window that is not excluded and the
\* value is the handle the driver was on before (None if that window is
\* closed); after a raise the driver has not moved
C14_Ended ==
    (SelectDone /\ s_call.list) =>
        IF s_out.kind = "return"
        THEN /\ IsOpen(d_current, d_handles)
             /\ ~InSeq(d_current, s_call.excludes)
             /\ \A h \in Before(d_current, d_handles) : InSeq(h, s_call.excludes)
             /\ \/ s_out.value = s_entry
                \/ s_out.value = NoneStr /\ ~IsOpen(HA, d_handles)
        ELSE /\ s_out = SelectRaised
             /\ d_current = HA
             /\ s_now > s_deadline

\* what an attempt with an exclusion list does: when a window that is not
\* excluded is open it goes for the first of them, and when that window is
\* still open at the switch the call returns
C14_Attempt ==
    /\ (s_pc = "list" /\ s_pc' # "list" /\ s_call.list) =>
          IF \E i \in 1..Len(d_handles) : ~InSeq(d_handles[i], s_call.excludes)
          THEN /\ s_pc' = "switch"
               /\ ~InSeq(s_todo'[1], s_call.excludes)
               /\ \A h \in Before(s_todo'[1], d_handles) : InSeq(h, s_call.excludes)
          ELSE s_pc' = "except"
    /\ (s_pc = "switch" /\ s_pc' # "switch" /\ s_call.list /\ IsOpen(s_todo[1], d_handles)) =>
          /\ s_pc' = "done"
          /\ d_current' = s_todo[1]
          /\ s_out' = SelectReturned(s_starting)

\* C14: with an exclusion list, an attempt that finds an open window not
\* in the list switches to the first such window and the call returns the
\* previously current handle; when every attempt up to the deadline finds
\* all open handles excluded the call raises NoSuchWindowException without
\* having switched; a window opened after the call started is found.
C14_ExclusionList ==
    /\ []C14_Ended
    /\ [][C14_Attempt]_vars

\* the window found was opened after the call had started and failed once
C14_Witness ==
    /\ SelectReturnedOk
    /\ s_call.list
    /\ s_call.excludes = <<HA, HB>>
    /\ s_attempts >= 2
    /\ d_current = HC
    /\ s_out.value = HA

\* only excluded windows up to the deadline
C14_WitnessRaised ==
    /\ SelectDone
    /\ s_call.list
    /\ s_out = SelectRaised
    /\ s_attempts >= 2
    /\ Len(d_handles) = 2


\* the call is select_window('new'), in any letter case
NewCall == ~s_call.list /\ Upper(s_call.s) = <<"N","E","W">>

\* what an attempt of 'new' does once it has listed the handles: it goes on
\* to switch exactly when the last handle is not the current window, and
\* the switch to a window that is still open ends the call with the
\* handle read at the start of the attempt
C15_Attempt ==
    /\ (s_pc = "current" /\ s_pc' # "current" /\ NewCall) =>
          IF s_todo[1] # d_current THEN s_pc' = "switch" ELSE s_pc' = "except"
    /\ (s_pc = "switch" /\ s_pc' # "switch" /\ NewCall /\ IsOpen(s_todo[1], d_handles)) =>
          /\ s_pc' = "done"
          /\ d_current' = s_todo[1]
          /\ s_out' = SelectReturned(s_starting)

\* a call of 'new' that raised has performed no switch
C15_Ended ==
    (SelectDone /\ NewCall /\ s_out = SelectRaised) => d_current = HA

\* C15: select_window('new') switches to the last handle whenever it is
\* not the current window and returns the previous handle, None when the
\* previously current window has been closed; when the last handle is the
\* current window at every attempt up to the deadline it raises
\* NoSuchWindowException and performs no switch.
C15_NewSwitchesToLast ==
    /\ []C15_Ended
    /\ [][C15_Attempt]_vars

\* 'new' gave up although the driver's window was closed and another
\* window was open all along
NewRaisedOnClosedCurrent ==
    /\ SelectDone
    /\ NewCall
    /\ s_out = SelectRaised
    /\ s_entry = NoneStr
    /\ ~IsOpen(d_current, d_handles)
    /\ s_attempts >= 2


\* the call is a default match: no list, no keyword, no recognised
\* strategy prefix
DefaultCall ==
    /\ ~s_call.list
    /\ Upper(s_call.s) \notin {<<"C","U","R","R","E","N","T">>, <<"M","A","I","N">>, <<"N","E","W">>}
    /\ GetSelector(s_call.s).strategy = <<"d","e","f","a","u","l","t">>

\* one of the five fields of the descriptor of window h equals criteria
AnyFieldEquals(h, criteria) ==
    \/ h = criteria
    \/ CurrentWindowInfo(h).id = criteria
    \/ CurrentWindowInfo(h).name = criteria
    \/ CurrentWindowInfo(h).title = criteria
    \/ CurrentWindowInfo(h).url = criteria

C16_WitnessOrder ==
    /\ DefaultCall
    /\ SelectReturnedOk
    /\ s_call.s = <<"t">>
    /\ d_current = HB
    /\ IsOpen(HC, d_handles)


----------------------------------------------------------------------------
(* _filter on its own: every list of at most MaxHits elements, with and    *)
(* without a tag, under constraint maps of no, one and two names.          *)

FilterTags == {PyNone, PyStr(<<"i","n","p","u","t">>), PyStr(<<"h","1">>)}

FilterConstraints ==
    { NoConstraints,
      <<Constraint("type", <<"c","h","e","c","k","b","o","x">>)>>,
      <<ConstraintList("type", TextFieldTypes)>>,
      <<Constraint("name", <<"q">>)>>,
      <<Constraint("type", <<"c","h","e","c","k","b","o","x">>), Constraint("name", <<"q">>)>>,
      <<ConstraintList("type", TextFieldTypes), Constraint("name", <<"q">>)>> }

FilterInit ==
    /\ f_call \in
          [fn : {"_filter"},
           elements : {PyList(l) : l \in ElementLists(MaxHits)},
           tag : FilterTags, constraints : FilterConstraints]
    /\ f_out = NoOutcome
    /\ f_pc = "call"
    /\ ParserIdle
    /\ WaiterIdle
    /\ WindowIdle

\* the call _filter(elements, tag, constraints)
CallFilter ==
    /\ f_pc = "call"
    /\ f_call.fn = "_filter"
    /\ f_out' = Filter(f_call.elements, f_call.tag, f_call.constraints, 0)
    /\ f_pc' = "done"
    /\ UNCHANGED f_call
    /\ UNCHANGED parserVars
    /\ UNCHANGED waiterVars
    /\ UNCHANGED windowVars

FilterNext == CallFilter

FilterSpec == FilterInit /\ [][FilterNext]_vars

----------------------------------------------------------------------------
FilterDone == f_pc = "done" /\ f_call.fn = "_filter"

\* the attribute named by constraint c has the value, or one of the values,
\* of c
NameSatisfied(e, c) ==
    IF c.isList
    THEN GetAttribute(e, c.name) \in {c.values[j] : j \in 1..Len(c.values)}
    ELSE GetAttribute(e, c.name) = c.value

\* the positions of the candidates the claim says are kept
KeptPositions ==
    {i \in 1..Len(f_call.elements.items) :
        /\ Lower(f_call.elements.items[i].tag_name) = f_call.tag.s
        /\ \/ f_call.constraints = <<>>
           \/ \E k \in 1..Len(f_call.constraints) :
                 NameSatisfied(f_call.elements.items[i], f_call.constraints[k])}

\* the n-th position of KeptPositions in the order of the list
NthKept(n) ==
    CHOOSE i \in KeptPositions : Cardinality({j \in KeptPositions : j < i}) = n - 1

\* C17: with tag None _filter returns the candidate list as it is; with a
\* tag it returns, in their original order, exactly the candidates whose
\* lower-cased tag name equals the tag and for which the constraint map is
\* empty or at least one constraint name is satisfied.
C17_FilterKeeps ==
    FilterDone =>
        /\ f_out.exc = "none"
        /\ IF f_call.tag.t = "None"
           THEN f_out.value = f_call.elements
           ELSE /\ f_out.value.t = "list"
                /\ Len(f_out.value.items) = Cardinality(KeptPositions)
                /\ \A n \in 1..Len(f_out.value.items) :
                      f_out.value.items[n] = f_call.elements.items[NthKept(n)]

\* <h1> dropped and <INPUT type=checkbox> kept under tag 'input' and
\* {'type': 'checkbox'}
C17_Witness ==
    /\ FilterDone
    /\ f_call.elements.items = <<E2, E1>>
    /\ f_call.tag = PyStr(<<"i","n","p","u","t">>)
    /\ f_call.constraints = <<Constraint("type", <<"c","h","e","c","k","b","o","x">>)>>
    /\ f_out.value.items = <<E1>>

\* the list came back as it was under tag None
C17_WitnessNoTag ==
    /\ FilterDone
    /\ f_call.tag = PyNone
    /\ f_call.elements.items = <<E2, E1>>
    /\ f_call.constraints # NoConstraints
    /\ f_out.value.items = <<E2, E1>>

\* C18: a candidate is kept by _filter only if every attribute name of the
\* constraint map is satisfied (a list by any one of its values), and
\* among the candidates with the right tag _filter keeps exactly those the
\* constraint clause of the default XPath selects.
C18_AndAcrossNames ==
    (FilterDone /\ f_call.tag.t # "None") =>
        \A i \in 1..Len(f_call.elements.items) :
            Lower(f_call.elements.items[i].tag_name) = f_call.tag.s =>
                /\ InSeq(f_call.elements.items[i], f_out.value.items) =>
                      \A k \in 1..Len(f_call.constraints) :
                          NameSatisfied(f_call.elements.items[i],
                                        f_call.constraints[k])
                /\ InSeq(f_call.elements.items[i], f_out.value.items) <=>
                      XpathConstraints(f_call.elements.items[i],
                                       f_call.constraints)

\* <input type=checkbox> without a name kept under
\* {'type': 'checkbox', 'name': 'q'}
KeptWithOneNameOfTwo ==
    /\ FilterDone
    /\ f_call.elements.items = <<E1>>
    /\ f_call.tag = PyStr(<<"i","n","p","u","t">>)
    /\ f_call.constraints =
          <<Constraint("type", <<"c","h","e","c","k","b","o","x">>), Constraint("name", <<"q">>)>>
    /\ f_out.value.items = <<E1>>
    /\ ~XpathConstraints(E1, f_call.constraints)

\* with at most one name in the map the filter and the XPath clause agree
OneNameAgrees ==
    (FilterDone /\ f_call.tag.t # "None" /\ Len(f_call.constraints) <= 1) =>
        \A i \in 1..Len(f_call.elements.items) :
            Lower(f_call.elements.items[i].tag_name) = f_call.tag.s =>
                (InSeq(f_call.elements.items[i], f_out.value.items) <=>
                    XpathConstraints(f_call.elements.items[i],
                                     f_call.constraints))


----------------------------------------------------------------------------
(* The dispatch of find_element on its own: locators written as an alias   *)
(* of the table in one of its letter cases, a separator form and a query.  *)

\* the letter cases an alias is written in: as in the table, upper case,
\* first letter upper case
CaseVariants(a) == {a, Upper(a), Capitalize(a)}

\* ':' or '=' with no, one or two spaces around it
SeparatorForms ==
    { <<":">>, <<"=">>, <<" ",":">>, <<" ","=">>, <<":"," ">>, <<"="," ">>,
      <<" ",":"," ">>, <<" ","="," ">> }

\* queries without a line break and without a leading blank
PlainQueries == { <<"q">>, <<"/","/","a">>, <<"x","=","y">>, <<"a"," ","b">> }

\* queries with a leading blank or a line break
OddQueries == { <<" ","q">>, <<"a","\n","b">>, <<"\n">> }

DispatchQueries == PlainQueries \cup OddQueries

\* the aliases that are one or two words
WordAliases == {p \in StrategyAlias : p[1] \notin {<<"#">>, <<"@">>}}

DispatchLocators ==
    {v \o sep \o query : v \in UNION {CaseVariants(p[1]) : p \in StrategyAlias},
                         sep \in SeparatorForms, query \in DispatchQueries}

DispatchInit ==
    /\ p_locator \in DispatchLocators
    /\ p_out = NotCalled
    /\ p_pc = "call"
    /\ FinderIdle
    /\ WaiterIdle
    /\ WindowIdle

\* find_element up to the choice of the search function
DispatchLocator ==
    /\ p_pc = "call"
    /\ p_out' = Dispatch(p_locator)
    /\ p_pc' = "done"
    /\ UNCHANGED p_locator
    /\ UNCHANGED finderVars
    /\ UNCHANGED waiterVars
    /\ UNCHANGED windowVars

DispatchNext == DispatchLocator

DispatchSpec == DispatchInit /\ [][DispatchNext]_vars

----------------------------------------------------------------------------
\* the locator is alias pair[1] in one of its letter cases, then sep, then
\* query, and find_element chose the search function of pair[2] with query
DispatchedAs(pair, queries) ==
    \A v \in CaseVariants(pair[1]) :
        (Len(p_locator) > Len(v) /\ SubSeq(p_locator, 1, Len(v)) = v) =>
            \A sep \in SeparatorForms, query \in queries :
                From(p_locator, Len(v) + 1) = sep \o query =>
                    /\ p_out.exc = "none"
                    /\ p_out.method = pair[2]
                    /\ p_out.query = query

\* C19 as stated: for every alias of the table, every letter case, every
\* separator form and every query, find_element chooses the search
\* function of the alias's strategy with the text after the separator as
\* query; every alias maps to a strategy that has a search function.
C19_AnyAliasAnyQuery ==
    /\ \A pair \in StrategyAlias : pair[2] \in Strategies
    /\ p_pc = "done" =>
          \A pair \in StrategyAlias : DispatchedAs(pair, DispatchQueries)

\* C19: the same for the aliases of one or two words and the queries that
\* have no line break and no leading blank.
C19_WordAliasPlainQuery ==
    /\ \A pair \in StrategyAlias : pair[2] \in Strategies
    /\ p_pc = "done" =>
          \A pair \in WordAliases : DispatchedAs(pair, PlainQueries)

\* 'X://a' went to the search function of xpath with query '//a'
C19_Witness ==
    /\ p_pc = "done"
    /\ p_locator = <<"X",":","/","/","a">>
    /\ p_out.exc = "none"
    /\ p_out.method = <<"x","p","a","t","h">>
    /\ p_out.query = <<"/","/","a">>

\* 'Class name = a b' went to the search function of class with query 'a b'
C19_WitnessTwoWords ==
    /\ p_pc = "done"
    /\ p_locator = <<"C","l","a","s","s"," ","n","a","m","e"," ","="," ","a"," ","b">>
    /\ p_out.method = <<"c","l","a","s","s">>
    /\ p_out.query = <<"a"," ","b">>

\* '#:q' went to the search function of id with the separator in the query
AliasHashKeepsSeparator ==
    /\ p_pc = "done"
    /\ p_locator = <<"#",":","q">>
    /\ p_out.method = <<"i","d">>
    /\ p_out.query = <<":","q">>

\* 'id:a\nb' went to the search function of id with query 'a'
QueryCutAtLineBreak ==
    /\ p_pc = "done"
    /\ p_locator = <<"i","d",":","a","\n","b">>
    /\ p_out.method = <<"i","d">>
    /\ p_out.query = <<"a">>


----------------------------------------------------------------------------
(* A shortcut locator and its explicit form side by side: '#' or '@' and   *)
(* every non-empty query of less than MaxLocLen characters of Alphabet.    *)

ShortcutQueries == Strings(MaxLocLen - 1) \ {<<>>}

\* 'id:' + q for '#' + q, 'link:' + q for '@' + q
ExplicitForm(locator) ==
    IF locator[1] = "#"
    THEN <<"i","d",":">> \o Tail(locator)
    ELSE <<"l","i","n","k",":">> \o Tail(locator)

\* the outcome before the two locators were parsed
NotCompared == [shortcut |-> NotCalled, explicit |-> NotCalled]

ShortcutInit ==
    /\ p_locator \in {<<mark>> \o query : mark \in {"#", "@"}, query \in ShortcutQueries}
    /\ p_out = NotCompared
    /\ p_pc = "call"
    /\ FinderIdle
    /\ WaiterIdle
    /\ WindowIdle

\* find_element up to the choice of the search function, for the shortcut
\* locator and for its explicit form
DispatchBoth ==
    /\ p_pc = "call"
    /\ p_out' = [shortcut |-> Dispatch(p_locator),
                 explicit |-> Dispatch(ExplicitForm(p_locator))]
    /\ p_pc' = "done"
    /\ UNCHANGED p_locator
    /\ UNCHANGED finderVars
    /\ UNCHANGED waiterVars
    /\ UNCHANGED windowVars

ShortcutNext == DispatchBoth

ShortcutSpec == ShortcutInit /\ [][ShortcutNext]_vars

----------------------------------------------------------------------------
\* both forms were parsed and gave the same resolved strategy and query
SameSearch ==
    /\ p_out.shortcut.exc = "none"
    /\ p_out.explicit.exc = "none"
    /\ p_out.shortcut.method = p_out.explicit.method
    /\ p_out.shortcut.query = p_out.explicit.query

\* C20 as stated: for every non-empty query q, '#' + q and 'id:' + q, and
\* '@' + q and 'link:' + q, give the same resolved strategy and query.
C20_ShortcutEqualsExplicit == p_pc = "done" => SameSearch

\* the query of the shortcut locator has no line break and does not begin
\* with a space
PlainShortcutQuery ==
    /\ p_locator[2] # " "
    /\ \A i \in 2..Len(p_locator) : p_locator[i] # "\n"

\* C20: for every non-empty query q without a line break and without a
\* leading space, '#' + q and 'id:' + q, and '@' + q and 'link:' + q, give
\* the same resolved strategy and the same query q.
C20_PlainShortcutEqualsExplicit ==
    (p_pc = "done" /\ PlainShortcutQuery) =>
        /\ SameSearch
        /\ p_out.shortcut.query = Tail(p_locator)
        /\ p_out.shortcut.method =
              IF p_locator[1] = "#" THEN <<"i","d">> ELSE <<"l","i","n","k">>

\* '@x:x' and 'link:x:x' both search link for 'x:x'
C20_Witness ==
    /\ p_pc = "done"
    /\ p_locator = <<"@","x",":","x">>
    /\ SameSearch
    /\ p_out.explicit.method = <<"l","i","n","k">>
    /\ p_out.explicit.query = <<"x",":","x">>

\* '# x' searches for ' x' and 'id: x' for 'x'
LeadingSpaceDiffers ==
    /\ p_pc = "done"
    /\ p_locator = <<"#"," ","x">>
    /\ p_out.shortcut.query = <<" ","x">>
    /\ p_out.explicit.query = <<"x">>

\* '#x\nx' searches for 'x\nx' and 'id:x\nx' for 'x'
LineBreakDiffers ==
    /\ p_pc = "done"
    /\ p_locator = <<"#","x","\n","x">>
    /\ p_out.shortcut.query = <<"x","\n","x">>
    /\ p_out.explicit.query = <<"x">>

\* '@\n' searches link for a line break and 'link:\n' is refused
LineBreakRefused ==
    /\ p_pc = "done"
    /\ p_locator = <<"@","\n">>
    /\ p_out.shortcut.exc = "none"
    /\ p_out.explicit.exc = "ValueError"

----------------------------------------------------------------------------
\* find_element was called with a scope that is no element handle
ScopeSupplied ==
    /\ f_pc = "done"
    /\ f_call.fn = "find_element"
    /\ f_call.parent.t # "None"
    /\ ~IsWebElement(f_call.parent)

\* C21: whenever a scope is supplied that is no element handle,
\* find_element raises ValueError before any parsing and any search.
C21_ScopeValidated ==
    ScopeSupplied =>
        /\ f_out.kind = "raise"
        /\ f_out.exc = "ValueError"
        /\ f_out.msg.text = "parent"
        /\ f_out.parses = 0
        /\ f_out.searches = 0

\* find_element('id:a', parent='') searched the document
EmptyScopeSearched ==
    /\ ScopeSupplied
    /\ f_call.parent = PyStr(<<>>)
    /\ f_call.locator = PyStr(<<"i","d",":","a">>)
    /\ f_out.searches = 1

\* a scope that is a non-empty str is refused
NonEmptyScopeRefused ==
    /\ ScopeSupplied
    /\ f_call.parent = PyStr(<<"b","o","d","y">>)
    /\ f_out.exc = "ValueError"
    /\ f_out.parses = 0

\* the call went to the dom or to the jquery strategy
ScriptCall ==
    /\ StringCallDone
    /\ WellFormed(f_call.locator.s)
    /\ ResolveAlias(GetStrategy(f_call.locator.s).strategy)
          \in {<<"d","o","m">>, <<"j","q","u","e","r","y">>}

\* C22: the dom and the jquery strategy hand a list of candidates to the
\* tag filter whatever the script answered (null, one element, a list), so
\* no TypeError is raised, an optional find without candidates returns
\* None (find_element) or [] (find_elements); with an element as scope
\* both raise an error without running the script.
C22_ScriptResultNormalised ==
    ScriptCall =>
        IF IsWebElement(f_call.parent)
        THEN /\ f_out.kind = "raise"
             /\ f_out.exc = "ValueError"
             /\ f_out.searches = 0
        ELSE /\ f_out.exc # "TypeError"
             /\ f_out.candidates.t = "list"
             /\ (~f_call.required /\ f_out.candidates.items = <<>>) =>
                   /\ f_out.kind = "return"
                   /\ f_out.value = IF f_call.first_only THEN PyNone
                                     ELSE PyList(<<>>)

\* find_element('jq:a', tag='h1', required=False) raised TypeError
JqueryRaisedTypeError ==
    /\ ScriptCall
    /\ f_call.locator.s = <<"j","q",":","a">>
    /\ f_call.tag = PyStr(<<"h","1">>)
    /\ ~f_call.required
    /\ ~IsWebElement(f_call.parent)
    /\ f_out.exc = "TypeError"

\* find_elements('jq:a') returned None
JqueryReturnedNone ==
    /\ ScriptCall
    /\ f_call.fn = "find_elements"
    /\ f_call.locator.s = <<"j","q",":","a">>
    /\ f_out.kind = "return"
    /\ f_out.value = PyNone

\* the dom strategy alone behaves as C22 says
DomResultNormalised ==
    (ScriptCall /\ f_call.locator.s = <<"d","o","m",":","a">>
        /\ ~IsWebElement(f_call.parent)) =>
        /\ f_out.exc # "TypeError"
        /\ f_out.candidates.t = "list"

----------------------------------------------------------------------------
(* _find_by_default on its own: the XPath it builds for every criterion of *)
(* at most MaxCritLen characters with and without quotes, the tags and     *)
(* constraint maps of _get_tag_and_constraints and a map of two names, and *)
(* page URLs with and without '/'.                                         *)

MaxCritLen == 2

QuoteAlphabet == {"a", "'", "\""}

Criteria(n) == UNION {[1..k -> QuoteAlphabet] : k \in 0..n}

XpathKinds ==
    {PyNone, PyStr(<<"l","i","n","k">>), PyStr(<<"I","m","a","g","e">>), PyStr(<<"i","n","p","u","t">>),
     PyStr(<<"b","u","t","t","o","n">>), PyStr(<<"c","h","e","c","k","b","o","x">>), PyStr(<<"t","e","x","t"," ","f","i","e","l","d">>),
     PyStr(<<"h","1">>)}

XpathTagsAndConstraints ==
    {GetTagAndConstraints(kind) : kind \in XpathKinds}
        \cup {[tag |-> PyStr(<<"i","m","g">>),
               constraints |-> <<Constraint("type", <<"f","i","l","e">>),
                                 ConstraintList("name", <<<<"q">>, <<"a">>>>)>>]}

PageUrls == {<<"h",":","/","p","/","x">>, <<"h",":","/","p","/">>, <<"a","b","o","u","t",":","b","l","a","n","k">>}

XpathInit ==
    /\ f_call \in
          {[fn |-> "_find_by_default", criteria |-> c, tag |-> tc.tag,
            constraints |-> tc.constraints, url |-> u] :
               c \in Criteria(MaxCritLen), tc \in XpathTagsAndConstraints,
               u \in PageUrls}
    /\ f_out = NoOutcome
    /\ f_pc = "call"
    /\ ParserIdle
    /\ WaiterIdle
    /\ WindowIdle

\* the call _find_by_default(criteria, tag, constraints, parent) up to the
\* lookup parent.find_elements_by_xpath(xpath)
CallFindByDefault ==
    /\ f_pc = "call"
    /\ f_call.fn = "_find_by_default"
    /\ f_out' = [kind |-> "lookup",
                 xpath |-> DefaultXpath(f_call.criteria, f_call.tag,
                                        f_call.constraints, f_call.url)]
    /\ f_pc' = "done"
    /\ UNCHANGED f_call
    /\ UNCHANGED parserVars
    /\ UNCHANGED waiterVars
    /\ UNCHANGED windowVars

XpathNext == CallFindByDefault

XpathSpec == XpathInit /\ [][XpathNext]_vars

----------------------------------------------------------------------------
XpathDone == f_pc = "done" /\ f_call.fn = "_find_by_default"

\* the probe list of the resolved tag as tabulated
ProbeList ==
    IF f_call.tag = PyStr(<<"a">>)
    THEN <<AttrId, AttrName, AttrHref, NormalizedText>>
    ELSE IF f_call.tag = PyStr(<<"i","m","g">>)
    THEN <<AttrId, AttrName, AttrSrc, AttrAlt>>
    ELSE IF f_call.tag = PyStr(<<"i","n","p","u","t">>)
    THEN <<AttrId, AttrName, AttrValue, AttrSrc>>
    ELSE IF f_call.tag = PyStr(<<"b","u","t","t","o","n">>)
    THEN <<AttrId, AttrName, AttrValue, NormalizedText>>
    ELSE <<AttrId, AttrName>>

\* the URL with its last '/'-separated segment removed
WithoutLastSegment(url) ==
    LET slashes == {i \in 1..Len(url) : url[i] = "/"}
    IN  IF slashes = {}
        THEN <<>>
        ELSE SubSeq(url, 1, (CHOOSE i \in slashes : \A j \in slashes : j <= i) - 1)

\* //T[K' and (P)] for the call, with base as the base URL
ShapedXpath(base) ==
    LET T == IF f_call.tag = PyNone THEN <<"*">> ELSE f_call.tag.s
        probes == [i \in 1..Len(ProbeList) |->
                      ProbeList[i] \o <<"=">> \o EscapeXpathValue(f_call.criteria)]
        urlAttrs == SelectSeq(<<AttrSrc, AttrHref>>, LAMBDA a : InSeq(a, ProbeList))
        urlProbes == [i \in 1..Len(urlAttrs) |->
                         urlAttrs[i] \o <<"=">>
                             \o EscapeXpathValue(base \o <<"/">> \o f_call.criteria)]
        P == JoinWith(probes \o urlProbes, <<" ","o","r"," ">>)
        K == JoinWith(XpathConstraintTexts(f_call.constraints), <<" ","a","n","d"," ">>)
    IN  IF f_call.constraints = <<>>
        THEN <<"/","/">> \o T \o <<"[","(">> \o P \o <<")","]">>
        ELSE <<"/","/">> \o T \o <<"[">> \o K \o <<" ","a","n","d"," ","(">> \o P \o <<")","]">>

\* C23 as stated: the expression searched is //T[K' and (P)] with the base
\* URL being the page URL without its last '/'-separated segment.
C23_ShapeLastSegmentCut ==
    XpathDone => f_out.xpath = ShapedXpath(WithoutLastSegment(f_call.url))

\* C23: the expression searched is //T[K' and (P)] with the base URL being
\* the page URL up to its last '/', or the whole page URL when it has no
\* '/'.
C23_DefaultXpathShape ==
    XpathDone =>
        f_out.xpath =
            ShapedXpath(IF InSeq("/", f_call.url)
                        THEN WithoutLastSegment(f_call.url)
                        ELSE f_call.url)

\* tag a, criterion a, page h:/p/x: //a[(@id='a' or @name='a' or @href='a'
\* or normalize-space(descendant-or-self::text())='a' or @href='h:/p/a')]
C23_Witness ==
    /\ XpathDone
    /\ f_call.tag = PyStr(<<"a">>)
    /\ f_call.criteria = <<"a">>
    /\ f_call.url = <<"h",":","/","p","/","x">>
    /\ f_out.xpath =
          <<"/","/","a","[","(","@","i","d","=","'","a","'"," ","o","r"," ","@","n","a","m","e","=","'","a","'"," ","o","r"," ","@","h","r","e","f","=","'","a","'"," ","o","r"," ">>
              \o NormalizedText \o <<"=","'","a","'"," ","o","r"," ","@","h","r","e","f","=","'","h",":","/","p","/","a","'",")","]">>

\* checkbox, criterion a: //input[@type='checkbox' and (@id='a' or
\* @name='a' or @value='a' or @src='a' or @src='h:/p/a')]
C23_WitnessConstraint ==
    /\ XpathDone
    /\ f_call.constraints = <<Constraint("type", <<"c","h","e","c","k","b","o","x">>)>>
    /\ f_call.criteria = <<"a">>
    /\ f_call.url = <<"h",":","/","p","/">>
    /\ f_out.xpath =
          <<"/","/","i","n","p","u","t","[","@","t","y","p","e","=","'","c","h","e","c","k","b","o","x","'"," ","a","n","d"," ","(","@","i","d","=","'","a","'"," ","o","r"," ","@","n","a","m","e","=","'","a","'"," ","o","r"," ">>
              \o <<"@","v","a","l","u","e","=","'","a","'"," ","o","r"," ","@","s","r","c","=","'","a","'"," ","o","r"," ","@","s","r","c","=","'","h",":","/","p","/","a","'",")","]">>

\* on the page about:blank the link probe is @href='about:blank/a'
WholeUrlAsBase ==
    /\ XpathDone
    /\ f_call.tag = PyStr(<<"a">>)
    /\ f_call.criteria = <<"a">>
    /\ f_call.url = <<"a","b","o","u","t",":","b","l","a","n","k">>
    /\ f_out.xpath =
          <<"/","/","a","[","(","@","i","d","=","'","a","'"," ","o","r"," ","@","n","a","m","e","=","'","a","'"," ","o","r"," ","@","h","r","e","f","=","'","a","'"," ","o","r"," ">>
              \o NormalizedText \o <<"=","'","a","'"," ","o","r"," ","@","h","r","e","f","=","'","a","b","o","u","t",":","b","l","a","n","k","/","a","'",")","]">>

----------------------------------------------------------------------------
(* _escape_xpath_value on its own: every string of at most MaxEscLen       *)
(* characters out of a letter, both quotes, a comma and a blank.           *)

MaxEscLen == 4

EscapeAlphabet == {"a", "'", "\"", ",", " "}

EscapeValues == UNION {[1..k -> EscapeAlphabet] : k \in 0..MaxEscLen}

EscapeInit ==
    /\ f_call \in [fn : {"_escape_xpath_value"}, value : EscapeValues]
    /\ f_out = NoOutcome
    /\ f_pc = "call"
    /\ ParserIdle
    /\ WaiterIdle
    /\ WindowIdle

\* the call _escape_xpath_value(value)
CallEscape ==
    /\ f_pc = "call"
    /\ f_call.fn = "_escape_xpath_value"
    /\ f_out' = [kind |-> "return", expr |-> EscapeXpathValue(f_call.value)]
    /\ f_pc' = "done"
    /\ UNCHANGED f_call
    /\ UNCHANGED parserVars
    /\ UNCHANGED waiterVars
    /\ UNCHANGED windowVars

EscapeNext == CallEscape

EscapeSpec == EscapeInit /\ [][EscapeNext]_vars

----------------------------------------------------------------------------
(* XPath 1.0 on the expressions in question: a Literal is '"' [^"]* '"' or *)
(* "'" [^']* "'", and concat takes two or more arguments.                  *)

NotXpath == [ok |-> FALSE, value |-> <<>>, args |-> 0]

\* the literals of s from index i on, separated by ", " and closed by ")":
\* their values one after the other, and how many they are
RECURSIVE XpathArguments(_, _)
XpathArguments(s, i) ==
    IF i > Len(s) \/ s[i] \notin {"'", "\""}
    THEN NotXpath
    ELSE LET closing == {j \in (i + 1)..Len(s) : s[j] = s[i]}
         IN  IF closing = {}
             THEN NotXpath
             ELSE LET j == CHOOSE k \in closing : \A l \in closing : k <= l
                      value == SubSeq(s, i + 1, j - 1)
                  IN  IF j + 1 = Len(s) /\ s[j + 1] = ")"
                      THEN [ok |-> TRUE, value |-> value, args |-> 1]
                      ELSE IF j + 2 <= Len(s) /\ s[j + 1] = "," /\ s[j + 2] = " "
                      THEN LET rest == XpathArguments(s, j + 3)
                           IN  IF rest.ok
                               THEN [ok |-> TRUE, value |-> value \o rest.value,
                                     args |-> rest.args + 1]
                               ELSE NotXpath
                      ELSE NotXpath

\* the string an XPath expression evaluates to, if it is a literal or a
\* concat of literals
XpathStringValue(expr) ==
    IF Len(expr) >= 2 /\ expr[1] \in {"'", "\""}
    THEN IF /\ expr[Len(expr)] = expr[1]
            /\ \A i \in 2..(Len(expr) - 1) : expr[i] # expr[1]
         THEN [ok |-> TRUE, value |-> SubSeq(expr, 2, Len(expr) - 1), args |-> 0]
         ELSE NotXpath
    ELSE IF Len(expr) > 7 /\ SubSeq(expr, 1, 7) = <<"c","o","n","c","a","t","(">>
    THEN LET r == XpathArguments(expr, 8)
         IN  IF r.ok /\ r.args >= 2 THEN r ELSE NotXpath
    ELSE NotXpath

EscapeDone == f_pc = "done" /\ f_call.fn = "_escape_xpath_value"

\* C24: for every criterion, with no quote, only ', only " or both,
\* _escape_xpath_value returns a well-formed XPath string expression, a
\* quoted literal or, when both kinds of quote occur, a concat of
\* literals, whose value is exactly the criterion.
C24_EscapeRoundTrips ==
    EscapeDone =>
        /\ XpathStringValue(f_out.expr).ok
        /\ XpathStringValue(f_out.expr).value = f_call.value
        /\ XpathStringValue(f_out.expr).args > 0 <=>
              (InSeq("'", f_call.value) /\ InSeq("\"", f_call.value))

\* a'"a became concat('a', "'", '"a')
C24_Witness ==
    /\ EscapeDone
    /\ f_call.value = <<"a","'","\"","a">>
    /\ f_out.expr = <<"c","o","n","c","a","t","(","'","a","'",","," ","\"","'","\"",","," ","'","\"","a","'",")">>
    /\ XpathStringValue(f_out.expr).value = f_call.value
    /\ XpathStringValue(f_out.expr).args = 3

\* a', became "a', "
C24_WitnessApostrophe ==
    /\ EscapeDone
    /\ f_call.value = <<"a","'",","," ">>
    /\ f_out.expr = <<"\"","a","'",","," ","\"">>
    /\ XpathStringValue(f_out.expr).value = f_call.value

----------------------------------------------------------------------------
(* _get_tag_and_constraints on its own: no kind, the kinds of its table in *)
(* three letter cases, and every string of at most MaxKindLen characters   *)
(* of KindAlphabet as a kind outside the table.                            *)

MaxKindLen == 3

KindAlphabet == {"a", "A", "l", " "}

TableKinds ==
    { <<"l","i","n","k">>,
      <<"p","a","r","t","i","a","l"," ","l","i","n","k">>,
      <<"i","m","a","g","e">>,
      <<"l","i","s","t">>,
      <<"r","a","d","i","o"," ","b","u","t","t","o","n">>,
      <<"c","h","e","c","k","b","o","x">>,
      <<"t","e","x","t"," ","f","i","e","l","d">>,
      <<"f","i","l","e"," ","u","p","l","o","a","d">>,
      <<"t","e","x","t"," ","a","r","e","a">> }

ResolverKinds ==
    {PyNone}
        \cup {PyStr(v) : v \in UNION {CaseVariants(k) : k \in TableKinds}}
        \cup {PyStr(k) : k \in UNION {[1..n -> KindAlphabet] : n \in 0..MaxKindLen}}

ResolverInit ==
    /\ f_call \in [fn : {"_get_tag_and_constraints"}, tag : ResolverKinds]
    /\ f_out = NoOutcome
    /\ f_pc = "call"
    /\ ParserIdle
    /\ WaiterIdle
    /\ WindowIdle

\* the call _get_tag_and_constraints(tag)
CallGetTagAndConstraints ==
    /\ f_pc = "call"
    /\ f_call.fn = "_get_tag_and_constraints"
    /\ f_out' = [kind |-> "return",
                 tag |-> GetTagAndConstraints(f_call.tag).tag,
                 constraints |-> GetTagAndConstraints(f_call.tag).constraints]
    /\ f_pc' = "done"
    /\ UNCHANGED f_call
    /\ UNCHANGED parserVars
    /\ UNCHANGED waiterVars
    /\ UNCHANGED windowVars

ResolverNext == CallGetTagAndConstraints

ResolverSpec == ResolverInit /\ [][ResolverNext]_vars

----------------------------------------------------------------------------
ResolverDone == f_pc = "done" /\ f_call.fn = "_get_tag_and_constraints"

\* the call returned tag with the single constraint type = value
ResolvedWithType(tag, value) ==
    /\ f_out.tag = PyStr(tag)
    /\ Len(f_out.constraints) = 1
    /\ f_out.constraints[1].name = "type"
    /\ ~f_out.constraints[1].isList
    /\ f_out.constraints[1].value = value

\* the call returned tag and an empty constraint map
ResolvedPlain(tag) ==
    /\ f_out.tag = PyStr(tag)
    /\ f_out.constraints = <<>>

\* the 13 values of the type of a text field
TextFieldValues ==
    << <<"d","a","t","e">>,
       <<"d","a","t","e","t","i","m","e","-","l","o","c","a","l">>,
       <<"e","m","a","i","l">>,
       <<"m","o","n","t","h">>,
       <<"n","u","m","b","e","r">>,
       <<"p","a","s","s","w","o","r","d">>,
       <<"s","e","a","r","c","h">>,
       <<"t","e","l">>,
       <<"t","e","x","t">>,
       <<"t","i","m","e">>,
       <<"u","r","l">>,
       <<"w","e","e","k">>,
       <<"f","i","l","e">> >>

\* C25: the resolver is total: no kind gives (None, {}); otherwise the kind
\* is lower-cased, the kinds of the table give their tag and constraint,
\* every other kind gives the lower-cased kind as tag with an empty map;
\* the map is empty whenever the tag is None.
C25_ResolverTotal ==
    ResolverDone =>
        /\ f_call.tag = PyNone => (f_out.tag = PyNone /\ f_out.constraints = <<>>)
        /\ f_out.tag = PyNone => f_out.constraints = <<>>
        /\ f_call.tag # PyNone =>
              LET kind == Lower(f_call.tag.s)
              IN  IF kind \in {<<"l","i","n","k">>, <<"p","a","r","t","i","a","l"," ","l","i","n","k">>}
                  THEN ResolvedPlain(<<"a">>)
                  ELSE IF kind = <<"i","m","a","g","e">>
                  THEN ResolvedPlain(<<"i","m","g">>)
                  ELSE IF kind = <<"l","i","s","t">>
                  THEN ResolvedPlain(<<"s","e","l","e","c","t">>)
                  ELSE IF kind = <<"t","e","x","t"," ","a","r","e","a">>
                  THEN ResolvedPlain(<<"t","e","x","t","a","r","e","a">>)
                  ELSE IF kind = <<"r","a","d","i","o"," ","b","u","t","t","o","n">>
                  THEN ResolvedWithType(<<"i","n","p","u","t">>, <<"r","a","d","i","o">>)
                  ELSE IF kind = <<"c","h","e","c","k","b","o","x">>
                  THEN ResolvedWithType(<<"i","n","p","u","t">>, <<"c","h","e","c","k","b","o","x">>)
                  ELSE IF kind = <<"f","i","l","e"," ","u","p","l","o","a","d">>
                  THEN ResolvedWithType(<<"i","n","p","u","t">>, <<"f","i","l","e">>)
                  ELSE IF kind = <<"t","e","x","t"," ","f","i","e","l","d">>
                  THEN /\ f_out.tag = PyStr(<<"i","n","p","u","t">>)
                       /\ Len(f_out.constraints) = 1
                       /\ f_out.constraints[1].name = "type"
                       /\ f_out.constraints[1].isList
                       /\ f_out.constraints[1].values = TextFieldValues
                       /\ Len(TextFieldValues) = 13
                  ELSE ResolvedPlain(kind)

\* 'Radio button' gave input with type = 'radio'
C25_Witness ==
    /\ ResolverDone
    /\ f_call.tag = PyStr(<<"R","a","d","i","o"," ","b","u","t","t","o","n">>)
    /\ ResolvedWithType(<<"i","n","p","u","t">>, <<"r","a","d","i","o">>)

\* 'LINK' gave a, and a kind outside the table gave itself in lower case
C25_WitnessLink ==
    /\ ResolverDone
    /\ f_call.tag = PyStr(<<"L","I","N","K">>)
    /\ ResolvedPlain(<<"a">>)

C25_WitnessOther ==
    /\ ResolverDone
    /\ f_call.tag = PyStr(<<"A","l"," ">>)
    /\ ResolvedPlain(<<"a","l"," ">>)

----------------------------------------------------------------------------
(* _filter applied to its own result, with the same tag and constraints.   *)

\* the call _filter(filtered, tag, constraints) on the list the first call
\* returned
CallFilterAgain ==
    /\ f_pc = "done"
    /\ f_call.fn = "_filter"
    /\ f_out.exc = "none"
    /\ f_out' = [first |-> f_out.value,
                 second |-> Filter(f_out.value, f_call.tag, f_call.constraints, 0)]
    /\ f_pc' = "twice"
    /\ UNCHANGED f_call
    /\ UNCHANGED parserVars
    /\ UNCHANGED waiterVars
    /\ UNCHANGED windowVars

RefilterNext == CallFilter \/ CallFilterAgain

RefilterSpec == FilterInit /\ [][RefilterNext]_vars

\* C26: filtering is idempotent: _filter applied to the list _filter
\* returned, with the same tag and constraint map, returns the same
\* elements in the same order.
C26_FilterIdempotent ==
    f_pc = "twice" =>
        /\ f_out.second.exc = "none"
        /\ f_out.second.value = f_out.first

\* [<h1>, <INPUT type=checkbox>] under 'input' and {'type': 'checkbox'}:
\* the second call kept the one element the first had kept
C26_Witness ==
    /\ f_pc = "twice"
    /\ f_call.elements.items = <<E2, E1>>
    /\ f_call.tag = PyStr(<<"i","n","p","u","t">>)
    /\ f_call.constraints = <<Constraint("type", <<"c","h","e","c","k","b","o","x">>)>>
    /\ f_out.first = PyList(<<E1>>)
    /\ f_out.second.value = PyList(<<E1>>)

----------------------------------------------------------------------------
\* wait_for_element_to_be_enabled with a locator that parses, or with an
\* element, has ended
EnabledWaitDone ==
    /\ WaitDone
    /\ w_call.fn = "wait_for_element_to_be_enabled"
    /\ \/ IsWebElement(w_call.locator)
       \/ w_call.locator.t = "str" /\ WellFormed(w_call.locator.s)

\* C27: wait_for_element_to_be_enabled with a well-formed locator ends by
\* returning the value of a poll (truthy, or falsy with negate) or by
\* raising TimeoutException with its own failure message after the
\* timeout; no other error leaves the call.
C27_EnabledWaitReturnsOrTimesOut ==
    EnabledWaitDone =>
        \/ /\ w_out.kind = "return"
           /\ Truthy(w_out.value) = ~w_call.negate
        \/ /\ w_out.kind = "raise"
           /\ w_out.exc = "TimeoutException"
           /\ w_out.failure = FailureMessage(w_call)
           /\ w_now > w_start + w_call.timeout

\* wait_for_element_to_be_enabled('id:a') ended at its first poll with
\* AttributeError
EnabledWaitRaisedAttributeError ==
    /\ EnabledWaitDone
    /\ w_call.locator = PyStr(<<"i","d",":","a">>)
    /\ w_evals = 1
    /\ w_sleeps = 0
    /\ w_out.kind = "raise"
    /\ w_out.exc = "AttributeError"

----------------------------------------------------------------------------
(* Element.page_contains_text.  The page is what the driver answers: top   *)
(* says whether the text is in the top-level document, frames[i] whether   *)
(* it is in the i-th frame or iframe.  start is the browsing context the   *)
(* driver is in when the call is made: 0 for the top-level document, i for *)
(* the i-th frame.  One action per call of the driver.                     *)

MaxFrames == 3

Pages ==
    [top : BOOLEAN, frames : UNION {[1..n -> BOOLEAN] : n \in 0..MaxFrames}]

\* the call is under way: nothing returned, the driver in context, frame
\* the index of the frame the loop is at, found the value of found_text
Running(context, frame, found) ==
    [kind |-> "none", exc |-> "none", value |-> PyNone, context |-> context,
     frame |-> frame, found |-> found]

PageReturned(value, context) ==
    [kind |-> "return", exc |-> "none", value |-> value, context |-> context,
     frame |-> 0, found |-> FALSE]

PageRaised(exc, context) ==
    [kind |-> "raise", exc |-> exc, value |-> PyNone, context |-> context,
     frame |-> 0, found |-> FALSE]

\* is_text_present(text) in the browsing context the driver is in
IsTextPresent(page, context) ==
    IF context = 0 THEN page.top ELSE page.frames[context]

PageInit ==
    /\ \E page \in Pages :
          f_call \in [fn : {"page_contains_text"}, page : {page},
                      start : 0..Len(page.frames)]
    /\ f_out = NoOutcome
    /\ f_pc = "call"
    /\ ParserIdle
    /\ WaiterIdle
    /\ WindowIdle

PageOthers == <<parserVars, waiterVars, windowVars>>

\* self.driver.switch_to.default_content()
SwitchToDefault ==
    /\ f_pc = "call"
    /\ f_call.fn = "page_contains_text"
    /\ f_out' = Running(0, 0, FALSE)
    /\ f_pc' = "top"
    /\ UNCHANGED <<f_call, PageOthers>>

\* if self.is_text_present(text): return True
ReadTop ==
    /\ f_pc = "top"
    /\ IF IsTextPresent(f_call.page, f_out.context)
       THEN /\ f_out' = PageReturned(PyBool(TRUE), f_out.context)
            /\ f_pc' = "done"
       ELSE /\ f_pc' = "list"
            /\ UNCHANGED f_out
    /\ UNCHANGED <<f_call, PageOthers>>

\* frames = self.find_elements('xpath://frame|//iframe'); for frame in
\* frames: without a frame the loop is not entered and the function ends
\* without a return statement
ListFrames ==
    /\ f_pc = "list"
    /\ IF f_call.page.frames = <<>>
       THEN /\ f_out' = PageReturned(PyNone, f_out.context)
            /\ f_pc' = "done"
       ELSE /\ f_out' = Running(f_out.context, 1, FALSE)
            /\ f_pc' = "enter"
    /\ UNCHANGED <<f_call, PageOthers>>

\* self.driver.switch_to.frame(frame)
EnterFrame ==
    /\ f_pc = "enter"
    /\ f_out' = Running(f_out.frame, f_out.frame, FALSE)
    /\ f_pc' = "read"
    /\ UNCHANGED <<f_call, PageOthers>>

\* if self.is_text_present(text): ...; return False (in the body of the
\* loop)
ReadFrame ==
    /\ f_pc = "read"
    /\ IF IsTextPresent(f_call.page, f_out.context)
       THEN /\ f_pc' = "reenter"
            /\ UNCHANGED f_out
       ELSE /\ f_out' = PageReturned(PyBool(FALSE), f_out.context)
            /\ f_pc' = "done"
    /\ UNCHANGED <<f_call, PageOthers>>

\* self.driver.switch_to.frame(frame) again, from inside the frame: frame
\* is an element of the top-level document, and the driver either refuses
\* it or stays in the frame
ReenterFrame ==
    /\ f_pc = "reenter"
    /\ \E accepted \in BOOLEAN :
          IF accepted
          THEN /\ f_pc' = "reread"
               /\ UNCHANGED f_out
          ELSE /\ f_out' = PageRaised("WebDriverException", f_out.context)
               /\ f_pc' = "done"
    /\ UNCHANGED <<f_call, PageOthers>>

\* found_text = self.is_text_present(text)
RereadFrame ==
    /\ f_pc = "reread"
    /\ f_out' = Running(f_out.context, f_out.frame,
                        IsTextPresent(f_call.page, f_out.context))
    /\ f_pc' = "leave"
    /\ UNCHANGED <<f_call, PageOthers>>

\* self.driver.switch_to.default_content(); if found_text: return True;
\* return False
LeaveFrame ==
    /\ f_pc = "leave"
    /\ f_out' = PageReturned(PyBool(f_out.found), 0)
    /\ f_pc' = "done"
    /\ UNCHANGED <<f_call, PageOthers>>

PageNext ==
    \/ SwitchToDefault
    \/ ReadTop
    \/ ListFrames
    \/ EnterFrame
    \/ ReadFrame
    \/ ReenterFrame
    \/ RereadFrame
    \/ LeaveFrame

PageSpec == PageInit /\ [][PageNext]_vars

----------------------------------------------------------------------------
PageDone == f_pc = "done" /\ f_call.fn = "page_contains_text"

\* the text is in the top-level document or in one of the frames
TextOnPage ==
    \/ f_call.page.top
    \/ \E i \in 1..Len(f_call.page.frames) : f_call.page.frames[i]

\* C28: page_contains_text returns True if the text is in the top-level
\* document or in at least one frame, whatever its position, and False if
\* it is in none of them, also on a page without frames.
C28_ChecksPageAndAllFrames ==
    PageDone =>
        /\ f_out.kind = "return"
        /\ f_out.value = PyBool(TextOnPage)

\* the text is in the second frame only and the call returned False
TextInSecondFrameMissed ==
    /\ PageDone
    /\ ~f_call.page.top
    /\ f_call.page.frames = <<FALSE, TRUE>>
    /\ f_out.value = PyBool(FALSE)

\* no text and no frame: the call returned None
NoFramesReturnedNone ==
    /\ PageDone
    /\ ~f_call.page.top
    /\ f_call.page.frames = <<>>
    /\ f_out.kind = "return"
    /\ f_out.value = PyNone

\* the text is in the first frame and the second switch into it failed
TextInFirstFrameRaised ==
    /\ PageDone
    /\ f_call.page.frames = <<TRUE>>
    /\ f_out.kind = "raise"

\* what the call does get right: the top-level document and the first
\* frame, if the driver lets the call enter it twice
TopAndFirstFrameChecked ==
    (PageDone /\ f_out.kind = "return" /\ f_out.value # PyNone) =>
        f_out.value = PyBool(f_call.page.top \/ f_call.page.frames[1])

----------------------------------------------------------------------------
(* Kijiji.delete_all_ads.  The site is the environment: at each step it    *)
(* decides whether the user is signed in, how many ads the page lists,     *)
(* whether a click succeeds and whether the page reports no active ads.    *)
(* f_out carries the frame of the innermost call: depth is the number of   *)
(* recursive calls below the first one, previous its argument and ads the  *)
(* list it read.                                                           *)

MaxAds == 2

\* recursive calls the model follows; the code has no such limit
MaxPasses == 3

PyInt(n) == [t |-> "int", n |-> n]

\* the list of elements find_elements returned, named by their position
AdList(n) == [t |-> "list", n |-> n]

\* Python's ==: a list and an int are never equal
PyEquals(a, b) == a.t = b.t /\ a = b

Pass(depth, previous, ads) ==
    [kind |-> "none", exc |-> "none", depth |-> depth,
     previous |-> previous, ads |-> ads]

PassReturned(frame) == [frame EXCEPT !.kind = "return"]

PassRaised(frame, exc) == [frame EXCEPT !.kind = "raise", !.exc = exc]

\* def delete_all_ads(self, previous: int = -1)
DeleteInit ==
    /\ f_call = [fn |-> "delete_all_ads"]
    /\ f_out = Pass(0, PyInt(-1), AdList(0))
    /\ f_pc = "signed"
    /\ ParserIdle
    /\ WaiterIdle
    /\ WindowIdle

\* if not self.is_signed_in(): raise RuntimeError
CheckSignedIn ==
    /\ f_pc = "signed"
    /\ f_call.fn = "delete_all_ads"
    /\ \E signed_in \in BOOLEAN :
          IF signed_in
          THEN /\ f_pc' = "list"
               /\ UNCHANGED f_out
          ELSE /\ f_out' = PassRaised(f_out, "RuntimeError: not signed in")
               /\ f_pc' = "done"
    /\ UNCHANGED <<f_call, PageOthers>>

\* goto(my_ads); wait_for_element(items); ads = find_elements(items): the
\* wait times out when no item shows up in time
ListAds ==
    /\ f_pc = "list"
    /\ f_call.fn = "delete_all_ads"
    /\ \/ /\ f_out' = PassRaised(f_out, "TimeoutException")
          /\ f_pc' = "done"
       \/ \E n \in 0..MaxAds :
             /\ f_out' = [f_out EXCEPT !.ads = AdList(n)]
             /\ f_pc' = "guard"
    /\ UNCHANGED <<f_call, PageOthers>>

\* if ads == previous: raise RuntimeError
GuardRecursion ==
    /\ f_pc = "guard"
    /\ IF PyEquals(f_out.ads, f_out.previous)
       THEN /\ f_out' = PassRaised(f_out, "RuntimeError: no effect")
            /\ f_pc' = "done"
       ELSE /\ f_pc' = "delete"
            /\ UNCHANGED f_out
    /\ UNCHANGED <<f_call, PageOthers>>

\* for ad in ads: four clicks, each after a wait or a find that can fail
DeleteAds ==
    /\ f_pc = "delete"
    /\ \/ /\ f_pc' = "check"
          /\ UNCHANGED f_out
       \/ /\ f_out.ads.n > 0
          /\ \E exc \in {"TimeoutException", "NoSuchElementException"} :
                f_out' = PassRaised(f_out, exc)
          /\ f_pc' = "done"
    /\ UNCHANGED <<f_call, PageOthers>>

\* goto(my_ads); try: return wait_for_page_to_contain('have no active ads')
CheckNoAds ==
    /\ f_pc = "check"
    /\ f_out' = PassReturned(f_out)
    /\ f_pc' = "done"
    /\ UNCHANGED <<f_call, PageOthers>>

\* except TimeoutException: return self.delete_all_ads(len(ads))
Recurse ==
    /\ f_pc = "check"
    /\ f_out.depth < MaxPasses
    /\ f_out' = Pass(f_out.depth + 1, PyInt(f_out.ads.n), AdList(0))
    /\ f_pc' = "signed"
    /\ UNCHANGED <<f_call, PageOthers>>

DeleteNext ==
    \/ CheckSignedIn
    \/ ListAds
    \/ GuardRecursion
    \/ DeleteAds
    \/ CheckNoAds
    \/ Recurse

DeleteSpec == DeleteInit /\ [][DeleteNext]_vars

----------------------------------------------------------------------------
\* a recursive call that has passed the comparison and goes on
PastGuard ==
    /\ f_call.fn = "delete_all_ads"
    /\ f_pc \in {"delete", "check"}
    /\ f_out.depth > 0

RecursedWithSameCount ==
    /\ PastGuard
    /\ f_pc = "check"
    /\ f_out.depth = 2
    /\ f_out.ads.n = 2
    /\ f_out.previous.n = 2

\* the comparison never ends a call
GuardNeverRaises ==
    (f_call.fn = "delete_all_ads" /\ f_pc = "done" /\ f_out.kind = "raise") =>
        f_out.exc # "RuntimeError: no effect"

----------------------------------------------------------------------------
(* The window enumeration: one call of get_all_windows_ids, _names,        *)
(* _titles or _urls, one action per call to the driver, while the browser  *)
(* opens and closes windows.  s_todo is the list of handles the loop runs  *)
(* over, s_out.infos the local variable infos, s_starting the local        *)
(* variable starting_handle, s_entry the window current at the call.       *)

EnumFields == {"id", "name", "title", "url"}

EnumCall(field) ==
    [list |-> FALSE, s |-> <<>>, excludes |-> <<>>, timeout |-> 0, field |-> field]

Enumerating(infos, failed) ==
    [kind |-> IF failed THEN "failing" ELSE "none", exc |-> "none",
     value |-> <<>>, infos |-> infos]

\* [info.id for info in infos] and its three siblings
InfoField(info, field) ==
    CASE field = "id" -> info.id
      [] field = "name" -> info.name
      [] field = "title" -> info.title
      [] field = "url" -> info.url

FieldsOf(infos, field) ==
    [i \in 1..Len(infos) |-> InfoField(infos[i], field)]

EnumReturned(infos, field) ==
    [kind |-> "return", exc |-> "none", value |-> FieldsOf(infos, field),
     infos |-> infos]

EnumRaised(infos) ==
    [kind |-> "raise", exc |-> "NoSuchWindowException", value |-> <<>>,
     infos |-> infos]

\* the mutant of FinallyRestores: the finally clause restores nothing
FinallyRestores_Never(starting_handle) == FALSE

\* finally: if starting_handle:
FinallyRestores(starting_handle) == starting_handle # NoneStr

EnumInit ==
    /\ d_handles = <<HA>>
    /\ d_current = HA
    /\ d_next = 1
    /\ s_call \in {EnumCall(field) : field \in EnumFields}
    /\ s_pc = "idle"
    /\ s_now = 0
    /\ SelectorAtRest
    /\ ParserIdle
    /\ FinderIdle
    /\ WaiterIdle

\* infos = []; try: starting_handle = self.get_window_handle()
\* except NoSuchWindowException: starting_handle = None
ReadStartingHandle ==
    /\ s_pc = "idle"
    /\ s_starting' = CurrentOrNone
    /\ s_entry' = CurrentOrNone
    /\ s_out' = Enumerating(<<>>, FALSE)
    /\ s_pc' = "handles"
    /\ UNCHANGED <<browserVars, s_call, s_locator, s_sel, s_todo>>
    /\ UNCHANGED <<s_epoch, s_deadline, s_now, s_attempts, Others>>

\* for handle in self.driver.window_handles:
EnumListHandles ==
    /\ s_pc = "handles"
    /\ s_todo' = d_handles
    /\ s_pc' = "enter"
    /\ UNCHANGED <<browserVars, s_call, s_locator, s_sel, s_starting>>
    /\ UNCHANGED <<s_epoch, s_deadline, s_now, s_attempts, s_entry, s_out, Others>>

\* self.driver.switch_to.window(handle)
EnumSwitch ==
    /\ s_pc = "enter"
    /\ IF IsOpen(s_todo[Len(s_out.infos) + 1], d_handles)
       THEN /\ d_current' = s_todo[Len(s_out.infos) + 1]
            /\ s_pc' = "describe"
            /\ UNCHANGED s_out
       ELSE /\ s_out' = Enumerating(s_out.infos, TRUE)
            /\ s_pc' = "finally"
            /\ UNCHANGED d_current
    /\ UNCHANGED <<d_handles, d_next, s_call, s_locator, s_sel, s_starting, s_todo>>
    /\ UNCHANGED <<s_epoch, s_deadline, s_now, s_attempts, s_entry, Others>>

\* infos.append(self._get_current_window_info()); after the last handle the
\* loop is left
EnumDescribe ==
    /\ s_pc = "describe"
    /\ IF IsOpen(d_current, d_handles)
       THEN /\ s_out' = Enumerating(Append(s_out.infos, CurrentWindowInfo(d_current)), FALSE)
            /\ s_pc' = IF Len(s_out.infos) + 1 = Len(s_todo) THEN "finally" ELSE "enter"
       ELSE /\ s_out' = Enumerating(s_out.infos, TRUE)
            /\ s_pc' = "finally"
    /\ UNCHANGED <<browserVars, s_call, s_locator, s_sel, s_starting, s_todo>>
    /\ UNCHANGED <<s_epoch, s_deadline, s_now, s_attempts, s_entry, Others>>

\* finally: if starting_handle: self.driver.switch_to.window(starting_handle)
\* and then return infos, or the exception under way, or the one of this
\* switch
EnumFinally ==
    /\ s_pc = "finally"
    /\ IF FinallyRestores(s_starting)
       THEN IF IsOpen(s_starting, d_handles)
            THEN /\ d_current' = s_starting
                 /\ s_out' = IF s_out.kind = "failing"
                             THEN EnumRaised(s_out.infos)
                             ELSE EnumReturned(s_out.infos, s_call.field)
            ELSE /\ s_out' = EnumRaised(s_out.infos)
                 /\ UNCHANGED d_current
       ELSE /\ s_out' = IF s_out.kind = "failing"
                        THEN EnumRaised(s_out.infos)
                        ELSE EnumReturned(s_out.infos, s_call.field)
            /\ UNCHANGED d_current
    /\ s_pc' = "done"
    /\ UNCHANGED <<d_handles, d_next, s_call, s_locator, s_sel, s_starting, s_todo>>
    /\ UNCHANGED <<s_epoch, s_deadline, s_now, s_attempts, s_entry, Others>>

EnumStep ==
    \/ ReadStartingHandle
    \/ EnumListHandles
    \/ EnumSwitch
    \/ EnumDescribe
    \/ EnumFinally

EnumNext == EnumStep \/ OpenWindow \/ CloseWindow

EnumSpec == EnumInit /\ [][EnumNext]_vars

----------------------------------------------------------------------------
EnumDone == s_pc = "done" /\ s_out.kind \in {"return", "raise"} /\ s_call.field \in EnumFields

\* on a normal return the list has the descriptor of every handle the call
\* listed, in their order
ListsEveryHandle ==
    (EnumDone /\ s_out.kind = "return") =>
        s_out.value =
            [i \in 1..Len(s_todo) |-> InfoField(CurrentWindowInfo(s_todo[i]), s_call.field)]

\* C30 as stated: after an enumeration query, returned or failed, the
\* current window is the one that was current and open when it was called,
\* and the list returned has one entry per handle in handle order.
C30_CurrentWindowUnchanged ==
    /\ (EnumDone /\ s_entry # NoneStr) => d_current = s_entry
    /\ ListsEveryHandle

\* C30: after an enumeration query, returned or failed, the current window
\* is the one that was current and open when it was called, provided it is
\* still open when the call ends; the list returned has one entry per
\* handle listed, in handle order.
C30_OpenStartingWindowRestored ==
    /\ (EnumDone /\ s_entry # NoneStr /\ IsOpen(s_entry, d_handles)) =>
           d_current = s_entry
    /\ ListsEveryHandle

\* the call failed after visiting the second window, the third one being
\* closed, and the driver is back on the first
C30_Witness ==
    /\ EnumDone
    /\ s_out.kind = "raise"
    /\ s_entry = HA
    /\ s_todo = <<HA, HB, HC>>
    /\ Len(s_out.infos) = 2
    /\ d_current = HA

\* the call returned three descriptors, the last one of the third window,
\* and the driver is back on the first
C30_WitnessReturned ==
    /\ EnumDone
    /\ s_out.kind = "return"
    /\ s_entry = HA
    /\ Len(s_out.value) = 3
    /\ d_current = HA

\* the starting window was closed during the call: the driver is left on
\* the last window visited
StartingWindowClosedMeanwhile ==
    /\ EnumDone
    /\ s_entry = HA
    /\ ~IsOpen(HA, d_handles)
    /\ d_current = HB

=============================================================================
